---- MODULE Spec2Model ----
(***************************************************************************)
(* Exchange subsystem of monetary-rs: ExchangeRate, the mock upstream of   *)
(* the test-suite, StaticRateProvider, CachedExchangeRateProvider and the  *)
(* CurrencyConversion service.                                             *)
(*                                                                         *)
(* Time is a discrete clock `now` (Instant::now()); a Duration is a number *)
(* of ticks.  Option<T> is the record None or Some(x).  Money amounts and  *)
(* rate factors are integers; `amount * factor` is integer multiplication. *)
(***************************************************************************)
EXTENDS Integers, Sequences, FiniteSets, TLC

\* ------------------------------------------------------------------ bounds
\* The clock stops ticking at MaxTime.
MaxTime == 3
\* The caching provider's default_ttl is drawn from 1..MaxTtl.
MaxTtl == 2
\* Threads of the interleaved caching-provider specification start at most
\* MaxLookups lookups in total.
MaxLookups == 3

\* ------------------------------------------------------------- basic types
None == [some |-> FALSE]
Some(x) == [some |-> TRUE, v |-> x]

\* Currency descriptors in use.  Equality of Currency is derived (the full
\* descriptor), so distinct codes are distinct currencies.
Currencies == {"USD", "EUR", "BTC", "ETH"}

\* Currency::numeric_code: BTC and ETH are both registered with code 0.
numeric_code(c) ==
    CASE c = "USD" -> 840
      [] c = "EUR" -> 978
      [] c = "BTC" -> 0
      [] c = "ETH" -> 0

\* CurrencyPair::new: the key is the pair of numeric codes.
CurrencyPair(base, target) == <<numeric_code(base), numeric_code(target)>>

Pairs == {CurrencyPair(b, t) : b \in Currencies, t \in Currencies}

\* MonetaryContext::default() and one non-default context (the builder's
\* currency preset).
DefaultContext == [precision |-> 19, max_scale |-> 6, rounding_mode |-> "HalfEven"]
CurrencyContext == [precision |-> 19, max_scale |-> 2, rounding_mode |-> "HalfEven"]
Contexts == {DefaultContext, CurrencyContext}

\* Monetary::new and Monetary::new_with_context.
Monetary_new(amount, currency) ==
    [amount |-> amount, currency |-> currency, context |-> DefaultContext]
Monetary_new_with_context(amount, currency, context) ==
    [amount |-> amount, currency |-> currency, context |-> context]

\* ------------------------------------------------------------ ExchangeRate
\* ExchangeRate::new at clock value t.
ExchangeRate_new(base, target, factor, t) ==
    [base_currency |-> base, target_currency |-> target, factor |-> factor,
     timestamp |-> t, ttl |-> None, context |-> DefaultContext]

with_ttl(rate, ttl) == [rate EXCEPT !.ttl = Some(ttl)]

with_context(rate, context) == [rate EXCEPT !.context = context]

\* (mutant) a rate expires as soon as its TTL has elapsed.
is_expired_inclusive(rate, t) ==
    IF rate.ttl.some THEN (t - rate.timestamp) >= rate.ttl.v ELSE FALSE

\* ExchangeRate::is_expired at clock value t: strictly more than ttl elapsed.
is_expired(rate, t) ==
    IF rate.ttl.some THEN (t - rate.timestamp) > rate.ttl.v ELSE FALSE

\* HashMap: a function whose domain is the set of keys present.
EmptyMap == [k \in {} |-> None]
get(m, k) == IF k \in DOMAIN m THEN Some(m[k]) ELSE None
insert(m, k, x) == [j \in DOMAIN m \cup {k} |-> IF j = k THEN x ELSE m[j]]
remove(m, k) == [j \in DOMAIN m \ {k} |-> m[j]]
len(m) == Cardinality(DOMAIN m)

Ok(m) == [v |-> m, ok |-> TRUE]
Err(e) == [ok |-> FALSE, err |-> e]

\* ExchangeRate::apply at clock value t.
apply(rate, amount, t) ==
    IF amount.currency # rate.base_currency THEN Err("CurrencyMismatch")
    ELSE IF is_expired(rate, t) THEN Err("ExpiredRate")
    ELSE Ok(Monetary_new(amount.amount * rate.factor, rate.target_currency))

\* ---------------------------------------------------------------- state
VARIABLES
    now,          \* the clock read by Instant::now() and Instant::elapsed()
    default_ttl,  \* CachedExchangeRateProvider.default_ttl
    upstream,     \* the upstream provider's table: CurrencyPair -> entry
    call_count,   \* MockProvider.call_count
    cache,        \* CachedExchangeRateProvider.cache: CurrencyPair -> rate
    fetched_at,   \* history: per key, the time of the last upstream call that returned a rate
    missed,       \* history: the keys whose latest lookup got none from the upstream
    last,         \* history: the last completed operation, its inputs and its result
    pc,           \* per thread: position inside get_exchange_rate
    req,          \* per thread: the (base, target) argument of the call in progress
    fetched,      \* per thread: the upstream's answer held in the local `rate`
    started,      \* number of lookups started by threads
    guards,       \* per thread: the lock guards it holds, as <<lock, mode>>
    static_rates, \* per static provider, StaticRateProvider.rates: CurrencyPair -> factor
    providers,    \* CurrencyConversion.providers, in insertion order
    rate_cache    \* CurrencyConversion.rate_cache: CurrencyPair -> rate

vars == <<now, default_ttl, upstream, call_count, cache, fetched_at, missed, last,
          pc, req, fetched, started, guards, static_rates, providers, rate_cache>>

cache_vars == <<default_ttl, upstream, call_count, cache, fetched_at, missed>>
thread_vars == <<pc, req, fetched, started, guards>>
service_vars == <<static_rates, providers, rate_cache>>

\* ------------------------------------------------- upstream (MockProvider)
\* What the upstream holds for a key: a factor together with the TTL (or
\* none) that the rates it mints carry.
UpstreamTtl == MaxTtl + 1
UpstreamEntries ==
    {[factor |-> 2, ttl |-> None], [factor |-> 3, ttl |-> Some(UpstreamTtl)]}

\* The (base, target) arguments with which the caching provider is called.
Requests == {<<"USD", "EUR">>, <<"BTC", "EUR">>, <<"ETH", "EUR">>}
RequestPairs == {CurrencyPair(r[1], r[2]) : r \in Requests}

\* MockProvider::get_exchange_rate: looks the key up and mints a rate for the
\* currencies it was asked for, stamped with the current time.
upstream_get_exchange_rate(table, base, target, t) ==
    LET e == get(table, CurrencyPair(base, target))
    IN  IF e.some
        THEN LET r == ExchangeRate_new(base, target, e.v.factor, t)
             IN  Some(IF e.v.ttl.some THEN with_ttl(r, e.v.ttl.v) ELSE r)
        ELSE None

\* ------------------------------------------- CachedExchangeRateProvider
CleanupEvery == 100

\* (mutant) the read path serves whatever entry is stored, stale or not.
read_path_stale(c, pair, t) == get(c, pair)

\* Fast read path (under the read lock): a clone of a non-expired entry.
read_path(c, pair, t) ==
    LET e == get(c, pair)
    IN  IF e.some /\ ~is_expired(e.v, t) THEN e ELSE None

\* cache.retain(|_, r| !r.is_expired()).
retain_fresh(c, t) == [p \in {q \in DOMAIN c : ~is_expired(c[q], t)} |-> c[p]]

\* (mutant) the upstream's rate is inserted as it came.
cached_copy_as_fetched(rate, ttl) == rate

\* The rate that is inserted: the upstream's rate with the provider's TTL.
cached_copy(rate, ttl) == with_ttl(rate, ttl)

\* Slow path (under the write lock): insert, then the periodic cleanup.
write_path(c, pair, rate, ttl, t) ==
    LET inserted == insert(c, pair, cached_copy(rate, ttl))
    IN  IF len(inserted) % CleanupEvery = 0 THEN retain_fresh(inserted, t)
        ELSE inserted

\* What the slow path hands back to the caller: `Some(rate)`, the upstream's
\* rate as fetched.
slow_path_result(rate, ttl) == Some(rate)

\* (mutant) a miss of the upstream is remembered as an entry of the cache.
slow_path_negative(c, pair, ttl, t, up) ==
    IF up.some
    THEN [hit |-> FALSE, up_called |-> TRUE, up |-> up, result |-> Some(up.v),
          cache |-> insert(c, pair, with_ttl(up.v, ttl))]
    ELSE [hit |-> FALSE, up_called |-> TRUE, up |-> None, result |-> None,
          cache |-> insert(c, pair, [base_currency |-> "USD", target_currency |-> "USD",
                                     factor |-> 0, timestamp |-> t, ttl |-> Some(ttl),
                                     context |-> DefaultContext])]

\* The slow path, given the upstream's answer `up`: store and return the
\* rate, or return none and store nothing.
slow_path(c, pair, ttl, t, up) ==
    IF up.some
    THEN [hit |-> FALSE, up_called |-> TRUE, up |-> up,
          result |-> slow_path_result(up.v, ttl),
          cache |-> write_path(c, pair, up.v, ttl, t)]
    ELSE [hit |-> FALSE, up_called |-> TRUE, up |-> None,
          result |-> None, cache |-> c]

\* The whole lookup, given what the read path found (`hit`) and what the
\* upstream answers when it is asked (`up`).
lookup_from(c, pair, ttl, t, hit, up) ==
    IF hit.some
    THEN [hit |-> TRUE, up_called |-> FALSE, up |-> None,
          result |-> hit, cache |-> c]
    ELSE slow_path(c, pair, ttl, t, up)

\* CachedExchangeRateProvider::get_exchange_rate, run by one caller with no
\* other caller in between: [hit, up_called, up, result, cache].
cached_get_exchange_rate(c, table, ttl, base, target, t) ==
    lookup_from(c, CurrencyPair(base, target), ttl, t,
                read_path(c, CurrencyPair(base, target), t),
                upstream_get_exchange_rate(table, base, target, t))

NoOp == [op |-> "none"]

Threads == {"t1", "t2"}

\* The providers that exist: two static ones and the caching provider.
StaticProviders == {"S1", "S2"}
AllProviders == StaticProviders \cup {"CP"}

InitCache ==
    /\ now = 0
    /\ default_ttl \in 1..MaxTtl
    /\ upstream \in UNION {[D -> UpstreamEntries] : D \in SUBSET RequestPairs}
    /\ call_count = 0
    /\ cache = EmptyMap
    /\ fetched_at = EmptyMap
    /\ missed = {}
    /\ last = NoOp
    /\ pc = [t \in Threads |-> "idle"]
    /\ req = [t \in Threads |-> <<"USD", "EUR">>]
    /\ fetched = [t \in Threads |-> None]
    /\ started = 0
    /\ guards = [t \in Threads |-> {}]
    /\ static_rates = [p \in StaticProviders |-> EmptyMap]
    /\ providers = << >>
    /\ rate_cache = EmptyMap

\* Time passes.
Tick ==
    /\ now < MaxTime
    /\ now' = now + 1
    /\ UNCHANGED <<cache_vars, last, thread_vars, service_vars>>

\* The effect of one whole call of get_exchange_rate(base, target) whose
\* outcome is r.
LookupDone(base, target, pair, r) ==
    /\ call_count < MaxLookups
    /\ cache' = r.cache
    /\ call_count' = IF r.up_called THEN call_count + 1 ELSE call_count
    /\ fetched_at' = IF r.up_called /\ r.up.some
                     THEN insert(fetched_at, pair, now)
                     ELSE fetched_at
    /\ missed' = IF r.up_called /\ ~r.up.some THEN missed \cup {pair}
                 ELSE missed \ {pair}
    /\ last' = [op |-> "lookup", base |-> base, target |-> target, at |-> now,
                hit |-> r.hit, up_called |-> r.up_called, up |-> r.up,
                result |-> r.result,
                calls_before |-> call_count,
                calls_after |-> IF r.up_called THEN call_count + 1 ELSE call_count,
                cache_before |-> cache,
                prev_fetch |-> get(fetched_at, pair),
                prev_missed |-> pair \in missed]
    /\ UNCHANGED <<now, default_ttl, upstream, thread_vars, service_vars>>

\* One whole call of get_exchange_rate(base, target) by a single caller.
Lookup(base, target) ==
    LookupDone(base, target, CurrencyPair(base, target),
               cached_get_exchange_rate(cache, upstream, default_ttl, base, target, now))

\* The upstream is any ExchangeRateProvider: what it holds for a key may
\* change between two calls.
UpstreamSet(pair, e) ==
    /\ get(upstream, pair) # Some(e)
    /\ upstream' = insert(upstream, pair, e)
    /\ UNCHANGED <<now, default_ttl, call_count, cache, fetched_at, missed, last,
                   thread_vars, service_vars>>

UpstreamDrop(pair) ==
    /\ pair \in DOMAIN upstream
    /\ upstream' = remove(upstream, pair)
    /\ UNCHANGED <<now, default_ttl, call_count, cache, fetched_at, missed, last,
                   thread_vars, service_vars>>

NextCache ==
    \/ Tick
    \/ \E r \in Requests : Lookup(r[1], r[2])
    \/ \E p \in RequestPairs, e \in UpstreamEntries : UpstreamSet(p, e)
    \/ \E p \in RequestPairs : UpstreamDrop(p)

SpecCache == InitCache /\ [][NextCache]_vars

\* ------------------------------------------------------ interleaved callers
\* get_exchange_rate run by several threads, one lock region or upstream
\* call per step.

\* A thread enters get_exchange_rate(base, target).
Begin(t, base, target) ==
    /\ pc[t] = "idle"
    /\ started < MaxLookups
    /\ pc' = [pc EXCEPT ![t] = "read"]
    /\ req' = [req EXCEPT ![t] = <<base, target>>]
    /\ fetched' = [fetched EXCEPT ![t] = None]
    /\ started' = started + 1
    /\ UNCHANGED <<now, cache_vars, last, guards, service_vars>>

\* The read-lock block: return a clone of a fresh entry, or fall through.
ReadStep(t) ==
    LET pair == CurrencyPair(req[t][1], req[t][2])
        hit  == read_path(cache, pair, now)
    IN  /\ pc[t] = "read"
        /\ IF hit.some
           THEN /\ pc' = [pc EXCEPT ![t] = "idle"]
                /\ last' = [op |-> "return", thread |-> t, pair |-> pair, at |-> now,
                            hit |-> TRUE, result |-> hit]
           ELSE /\ pc' = [pc EXCEPT ![t] = "upstream"]
                /\ last' = last
        /\ UNCHANGED <<now, cache_vars, req, fetched, started, guards, service_vars>>

\* The call of the upstream, made with no lock held.
UpstreamStep(t) ==
    LET pair == CurrencyPair(req[t][1], req[t][2])
        up   == upstream_get_exchange_rate(upstream, req[t][1], req[t][2], now)
    IN  /\ pc[t] = "upstream"
        /\ call_count' = call_count + 1
        /\ fetched' = [fetched EXCEPT ![t] = up]
        /\ IF up.some
           THEN /\ pc' = [pc EXCEPT ![t] = "write"]
                /\ fetched_at' = insert(fetched_at, pair, now)
                /\ last' = [op |-> "fetch", thread |-> t, pair |-> pair, at |-> now,
                            prev_fetch |-> get(fetched_at, pair)]
           ELSE /\ pc' = [pc EXCEPT ![t] = "idle"]
                /\ fetched_at' = fetched_at
                /\ last' = [op |-> "return", thread |-> t, pair |-> pair, at |-> now,
                            hit |-> FALSE, result |-> None]
        /\ missed' = IF up.some THEN missed \ {pair} ELSE missed \cup {pair}
        /\ UNCHANGED <<now, default_ttl, upstream, cache, req, started, guards,
                       service_vars>>

\* The write-lock block, then the return of Some(rate).
WriteStep(t) ==
    LET pair == CurrencyPair(req[t][1], req[t][2])
    IN  /\ pc[t] = "write"
        /\ cache' = write_path(cache, pair, fetched[t].v, default_ttl, now)
        /\ pc' = [pc EXCEPT ![t] = "idle"]
        /\ last' = [op |-> "return", thread |-> t, pair |-> pair, at |-> now,
                    hit |-> FALSE,
                    result |-> slow_path_result(fetched[t].v, default_ttl)]
        /\ UNCHANGED <<now, default_ttl, upstream, call_count, fetched_at, missed,
                       req, fetched, started, guards, service_vars>>

NextThreads ==
    \/ Tick
    \/ \E t \in Threads, r \in Requests : Begin(t, r[1], r[2])
    \/ \E t \in Threads : ReadStep(t)
    \/ \E t \in Threads : UpstreamStep(t)
    \/ \E t \in Threads : WriteStep(t)

SpecThreads == InitCache /\ [][NextThreads]_vars

\* ------------------------------------------------------ StaticRateProvider
\* StaticRateProvider::add_rate.
add_rate(rates, base, target, rate) == insert(rates, CurrencyPair(base, target), rate)

\* StaticRateProvider::get_exchange_rate: a rate minted for the currencies
\* asked for, with the provider's context and no TTL.
static_get_exchange_rate(rates, base, target, t) ==
    LET f == get(rates, CurrencyPair(base, target))
    IN  IF f.some
        THEN Some(with_context(ExchangeRate_new(base, target, f.v, t), DefaultContext))
        ELSE None

\* ------------------------------------------------------ CurrencyConversion
\* What a provider's get_exchange_rate amounts to, given the caching
\* provider's outcome r: [rate, cache, up_called, up].
cached_answer(r) ==
    [rate |-> r.result, cache |-> r.cache, up_called |-> r.up_called, up |-> r.up]

\* provider.get_exchange_rate(base, target) for one provider of the chain;
\* only the caching provider has state to change.
provider_get_exchange_rate(p, srates, c, table, ttl, base, target, t) ==
    IF p = "CP"
    THEN cached_answer(cached_get_exchange_rate(c, table, ttl, base, target, t))
    ELSE [rate |-> static_get_exchange_rate(srates[p], base, target, t),
          cache |-> c, up_called |-> FALSE, up |-> None]

first_index(S) == CHOOSE i \in S : \A j \in S : i <= j

\* (mutant) the last provider that has a rate wins.
first_found_last(answers) ==
    LET found == {i \in DOMAIN answers : answers[i].rate.some}
    IN  IF found = {} THEN 0 ELSE CHOOSE i \in found : \A j \in found : i >= j

\* The position at which `for provider in &self.providers` returns: the
\* first provider whose answer is a rate (0: none has one).
first_found(answers) ==
    LET found == {i \in DOMAIN answers : answers[i].rate.some}
    IN  IF found = {} THEN 0 ELSE first_index(found)

\* The outcome of the loop that stopped at position n (0: ran to the end).
loop_outcome(answers, c, n) ==
    LET consulted == IF n = 0 THEN Len(answers) ELSE n
        called    == {i \in 1..consulted : answers[i].up_called}
    IN  [rate |-> IF n = 0 THEN None ELSE answers[n].rate,
         index |-> n,
         consulted |-> consulted,
         cache |-> IF n = 0 THEN c ELSE answers[n].cache,
         up_called |-> called # {},
         up |-> IF called = {} THEN None ELSE answers[first_index(called)].up]

\* The provider loop of convert.  A provider that returns none leaves every
\* cache as it was, so answers[i] is what provider i returns when the loop
\* reaches it.
try_providers(chain, srates, c, table, ttl, base, target, t) ==
    loop_outcome([i \in 1..Len(chain) |->
                     provider_get_exchange_rate(chain[i], srates, c, table, ttl,
                                                base, target, t)],
                 c,
                 first_found([i \in 1..Len(chain) |->
                     provider_get_exchange_rate(chain[i], srates, c, table, ttl,
                                                base, target, t)]))

\* The fast path of convert: source and target have the same numeric code.
same_currency(amount, target) ==
    numeric_code(amount.currency) = numeric_code(target)

\* (mutant) the service cache serves whatever entry is stored.
service_cache_lookup_stale(rc, pair, t) == get(rc, pair)

\* "Check cache first": a non-expired entry of the service cache.
service_cache_lookup(rc, pair, t) ==
    LET e == get(rc, pair)
    IN  IF e.some /\ ~is_expired(e.v, t) THEN e ELSE None

\* (mutant) the rate is not stored.
cache_successful_rate_skip(rc, pair, rate, result) == rc

\* (mutant) the rate is stored whatever the outcome of applying it.
cache_successful_rate_always(rc, pair, rate, result) == insert(rc, pair, rate)

\* "Cache successful rate".
cache_successful_rate(rc, pair, rate, result) ==
    IF result.ok THEN insert(rc, pair, rate) ELSE rc

\* The outcome of applying the rate a provider returned.
provider_outcome(rc, c, pair, f, result) ==
    [result |-> result, source |-> "provider",
     index |-> f.index, consulted |-> f.consulted, rate |-> f.rate,
     rate_cache |-> cache_successful_rate(rc, pair, f.rate.v, result),
     cache |-> f.cache, up_called |-> f.up_called, up |-> f.up]

\* (mutant) a same-currency request goes through the rate lookup as well.
convert_from_no_fast_path(rc, c, pair, amount, target, t, hit, f) ==
    IF hit.some
    THEN [result |-> apply(hit.v, amount, t), source |-> "cache", index |-> 0,
          consulted |-> 0, rate |-> hit, rate_cache |-> rc, cache |-> c,
          up_called |-> FALSE, up |-> None]
    ELSE IF f.rate.some
    THEN provider_outcome(rc, c, pair, f, apply(f.rate.v, amount, t))
    ELSE [result |-> Err("NoRateFound"), source |-> "none", index |-> 0,
          consulted |-> f.consulted, rate |-> None, rate_cache |-> rc,
          cache |-> f.cache, up_called |-> f.up_called, up |-> f.up]

\* convert, given what the service cache holds for the pair (`hit`) and the
\* outcome of the provider loop when it is run (`f`).
convert_from(rc, c, pair, amount, target, t, hit, f) ==
    IF same_currency(amount, target)
    THEN [result |-> Ok(amount), source |-> "same", index |-> 0, consulted |-> 0,
          rate |-> None, rate_cache |-> rc, cache |-> c,
          up_called |-> FALSE, up |-> None]
    ELSE IF hit.some
    THEN [result |-> apply(hit.v, amount, t), source |-> "cache", index |-> 0,
          consulted |-> 0, rate |-> hit, rate_cache |-> rc, cache |-> c,
          up_called |-> FALSE, up |-> None]
    ELSE IF f.rate.some
    THEN provider_outcome(rc, c, pair, f, apply(f.rate.v, amount, t))
    ELSE [result |-> Err("NoRateFound"), source |-> "none", index |-> 0,
          consulted |-> f.consulted, rate |-> None, rate_cache |-> rc,
          cache |-> f.cache, up_called |-> f.up_called, up |-> f.up]

\* CurrencyConversion::convert: [result, source, index, consulted, rate,
\* rate_cache, cache, up_called, up].
convert(rc, chain, srates, c, table, ttl, amount, target, t) ==
    convert_from(rc, c, CurrencyPair(amount.currency, target), amount, target, t,
                 service_cache_lookup(rc, CurrencyPair(amount.currency, target), t),
                 try_providers(chain, srates, c, table, ttl,
                               amount.currency, target, t))

\* The most providers a service is given.
MaxProviders == 2

\* Arguments of add_rate: S1 quotes factor 2, S2 quotes factor 3.
RateInputs ==
    {<<"S1", "BTC", "USD", 2>>, <<"S1", "USD", "BTC", 2>>,
     <<"S2", "BTC", "USD", 3>>, <<"S2", "ETH", "USD", 3>>, <<"S2", "EUR", "USD", 3>>}

\* Monetary values and targets handed to convert.
Moneys == {Monetary_new(1, c) : c \in Currencies}
              \cup {Monetary_new_with_context(2, c, CurrencyContext) : c \in Currencies}
Targets == {"USD", "BTC", "ETH"}

\* A service with static providers; no rate carries a TTL.
InitConv ==
    /\ now = 0
    /\ default_ttl = 1
    /\ upstream = EmptyMap
    /\ call_count = 0
    /\ cache = EmptyMap
    /\ fetched_at = EmptyMap
    /\ missed = {}
    /\ last = NoOp
    /\ pc = [t \in Threads |-> "idle"]
    /\ req = [t \in Threads |-> <<"USD", "EUR">>]
    /\ fetched = [t \in Threads |-> None]
    /\ started = 0
    /\ guards = [t \in Threads |-> {}]
    /\ static_rates = [p \in StaticProviders |-> EmptyMap]
    /\ providers = << >>
    /\ rate_cache = EmptyMap

\* A service whose chain may hold the caching provider, which other callers
\* share; the clock runs.
SharedRequests == {<<"EUR", "USD">>}
SharedPairs == {CurrencyPair(r[1], r[2]) : r \in SharedRequests}
SharedProviders == {"CP", "S2"}
SharedRateInputs == {<<"S2", "EUR", "USD", 3>>}
SharedMoneys == {m \in Moneys : m.currency \in {"EUR", "USD"}}
SharedTargets == {"USD"}

InitShared ==
    /\ now = 0
    /\ default_ttl \in 1..MaxTtl
    /\ upstream \in UNION {[D -> {[factor |-> 2, ttl |-> None]}] : D \in SUBSET SharedPairs}
    /\ call_count = 0
    /\ cache = EmptyMap
    /\ fetched_at = EmptyMap
    /\ missed = {}
    /\ last = NoOp
    /\ pc = [t \in Threads |-> "idle"]
    /\ req = [t \in Threads |-> <<"USD", "EUR">>]
    /\ fetched = [t \in Threads |-> None]
    /\ started = 0
    /\ guards = [t \in Threads |-> {}]
    /\ static_rates = [p \in StaticProviders |-> EmptyMap]
    /\ providers = << >>
    /\ rate_cache = EmptyMap

\* The providers and the service are set up before the first call is made.
SettingUp == last.op = "none" /\ now = 0

\* provider.add_rate(base, target, rate) on a static provider that is not yet
\* shared with the service.
AddRate(p, base, target, rate) ==
    /\ SettingUp
    /\ \A i \in 1..Len(providers) : providers[i] # p
    /\ get(static_rates[p], CurrencyPair(base, target)) # Some(rate)
    /\ static_rates' = [static_rates EXCEPT ![p] = add_rate(@, base, target, rate)]
    /\ UNCHANGED <<now, cache_vars, last, thread_vars, providers, rate_cache>>

\* CurrencyConversion::add_provider.
AddProvider(p) ==
    /\ SettingUp
    /\ Len(providers) < MaxProviders
    /\ \A i \in 1..Len(providers) : providers[i] # p
    /\ providers' = Append(providers, p)
    /\ UNCHANGED <<now, cache_vars, last, thread_vars, static_rates, rate_cache>>

\* The effect of one whole call of convert(amount, target) whose outcome is r.
ConvertDone(amount, target, pair, r) ==
    /\ call_count < MaxLookups
    /\ rate_cache' = r.rate_cache
    /\ cache' = r.cache
    /\ call_count' = IF r.up_called THEN call_count + 1 ELSE call_count
    /\ fetched_at' = IF r.up_called /\ r.up.some
                     THEN insert(fetched_at, pair, now)
                     ELSE fetched_at
    /\ missed' = IF r.up_called
                 THEN (IF r.up.some THEN missed \ {pair} ELSE missed \cup {pair})
                 ELSE missed
    /\ last' = [op |-> "convert", amount |-> amount, target |-> target, at |-> now,
                result |-> r.result, source |-> r.source, index |-> r.index,
                consulted |-> r.consulted, rate |-> r.rate,
                entry_before |-> get(rate_cache, pair),
                cache_before |-> rate_cache,
                calls_before |-> call_count,
                provider_cache_before |-> cache,
                upstream_before |-> upstream,
                chain |-> providers]
    /\ UNCHANGED <<now, default_ttl, upstream, thread_vars, static_rates, providers>>

\* One whole call of convert(amount, target).
Convert(amount, target) ==
    ConvertDone(amount, target, CurrencyPair(amount.currency, target),
                convert(rate_cache, providers, static_rates, cache, upstream,
                        default_ttl, amount, target, now))

NextConv ==
    \/ \E a \in RateInputs : AddRate(a[1], a[2], a[3], a[4])
    \/ \E p \in StaticProviders : AddProvider(p)
    \/ \E m \in Moneys, target \in Targets : Convert(m, target)

SpecConv == InitConv /\ [][NextConv]_vars

NextShared ==
    \/ Tick
    \/ \E r \in SharedRequests : Lookup(r[1], r[2])
    \/ \E p \in SharedPairs : UpstreamDrop(p)
    \/ \E a \in SharedRateInputs : AddRate(a[1], a[2], a[3], a[4])
    \/ \E p \in SharedProviders : AddProvider(p)
    \/ \E m \in SharedMoneys, target \in SharedTargets : Convert(m, target)

SpecShared == InitShared /\ [][NextShared]_vars

\* ------------------------------------------------------------ convert_batch
\* The longest slice handed to convert_batch.
MaxBatch == 2

\* self.convert(amount, target) on the service whose rate cache holds rc.
service_convert(rc, amount, target) ==
    convert(rc, providers, static_rates, cache, upstream, default_ttl,
            amount, target, now)

\* by_currency[code]: the indices of the amounts whose currency has that
\* numeric code, in input order.
indices_of(amounts, code) ==
    SelectSeq([i \in 1..Len(amounts) |-> i],
              LAMBDA i : numeric_code(amounts[i].currency) = code)

\* The keys of by_currency.
currency_codes(amounts) ==
    {numeric_code(amounts[i].currency) : i \in 1..Len(amounts)}

\* The orders in which `for (currency_code, indices) in by_currency` may
\* visit the keys of the HashMap.
iteration_orders(codes) ==
    {o \in [1..Cardinality(codes) -> codes] : \A c \in codes : \E i \in DOMAIN o : o[i] = c}

\* vec![Err(NoRateFound); amounts.len()]
initial_results(amounts) == [i \in 1..Len(amounts) |-> Err("NoRateFound")]

\* "Same currency - no conversion needed".
pass_through(results, amounts, idxs) ==
    [i \in DOMAIN results |->
        IF \E k \in DOMAIN idxs : idxs[k] = i THEN Ok(amounts[i]) ELSE results[i]]

\* (mutant) only the amount that was tried is marked as failed.
mark_failed_first_only(results, idxs, e) == [results EXCEPT ![idxs[1]] = e]

\* "Rate not found, mark all as failed".
mark_failed(results, idxs, e) ==
    [i \in DOMAIN results |->
        IF \E k \in DOMAIN idxs : idxs[k] = i THEN e ELSE results[i]]

\* results[idx] = self.convert(&amounts[idx], target), whose outcome is r.
store_result(st, idx, r) ==
    [results |-> [st.results EXCEPT ![idx] = r.result], rate_cache |-> r.rate_cache]

\* "Rate exists, convert all amounts with this currency".
RECURSIVE convert_each(_, _, _, _)
convert_each(st, amounts, idxs, target) ==
    IF idxs = << >> THEN st
    ELSE convert_each(
            CHOOSE next \in {store_result(st, Head(idxs),
                                          service_convert(st.rate_cache,
                                                          amounts[Head(idxs)], target))} : TRUE,
            amounts, Tail(idxs), target)

\* The body of the loop for one key of by_currency; `first` is the outcome
\* of converting the first amount of the partition.
process_partition(st, amounts, code, idxs, target, first) ==
    IF code = numeric_code(target)
    THEN [results |-> pass_through(st.results, amounts, idxs),
          rate_cache |-> st.rate_cache]
    ELSE IF first.result.ok
    THEN convert_each([results |-> st.results, rate_cache |-> first.rate_cache],
                      amounts, idxs, target)
    ELSE [results |-> mark_failed(st.results, idxs, first.result),
          rate_cache |-> first.rate_cache]

\* The loop over by_currency, visiting its keys in the given order.
RECURSIVE batch_loop(_, _, _, _)
batch_loop(st, amounts, order, target) ==
    IF order = << >> THEN st
    ELSE batch_loop(
            CHOOSE next \in {process_partition(st, amounts, Head(order),
                              indices_of(amounts, Head(order)), target,
                              service_convert(st.rate_cache,
                                              amounts[Head(indices_of(amounts, Head(order)))],
                                              target))} : TRUE,
            amounts, Tail(order), target)

\* CurrencyConversion::convert_batch: [results, rate_cache].
convert_batch(rc, amounts, target, order) ==
    batch_loop([results |-> initial_results(amounts), rate_cache |-> rc],
               amounts, order, target)

\* Arguments of add_rate and of convert_batch.
BatchRateInputs == {<<"S1", "BTC", "USD", 2>>, <<"S2", "EUR", "USD", 3>>}
BatchMoneys ==
    {Monetary_new(1, "BTC"), Monetary_new(1, "ETH"), Monetary_new(1, "USD"),
     Monetary_new_with_context(2, "EUR", CurrencyContext)}
Batches == UNION {[1..n -> BatchMoneys] : n \in 0..MaxBatch}
BatchTargets == {"USD"}

\* The effect of one whole call of convert_batch whose outcome is st.
BatchDone(amounts, target, order, st) ==
    /\ rate_cache' = st.rate_cache
    /\ last' = [op |-> "batch", amounts |-> amounts, target |-> target, at |-> now,
                results |-> st.results, cache_before |-> rate_cache]
    /\ UNCHANGED <<now, cache_vars, thread_vars, static_rates, providers>>

\* One whole call of convert_batch(amounts, target) on a service whose
\* chain holds static providers.
ConvertBatch(amounts, target) ==
    /\ \A i \in 1..Len(providers) : providers[i] \in StaticProviders
    /\ \E order \in iteration_orders(currency_codes(amounts)) :
           BatchDone(amounts, target, order,
                     convert_batch(rate_cache, amounts, target, order))

NextBatch ==
    \/ \E a \in BatchRateInputs : AddRate(a[1], a[2], a[3], a[4])
    \/ \E p \in StaticProviders : AddProvider(p)
    \/ \E amounts \in Batches, target \in BatchTargets : ConvertBatch(amounts, target)

SpecBatch == InitConv /\ [][NextBatch]_vars

\* ------------------------------------------------- ExchangeRate::apply alone
\* Rates handed to apply: built at some earlier clock value, with or
\* without a TTL, with either context.
ApplyBases == {"USD", "BTC"}
ApplyTtls == {None} \cup {Some(d) : d \in 1..MaxTtl}
ApplyRates(t) ==
    {with_context(
        IF ttl.some
        THEN with_ttl(ExchangeRate_new(base, "EUR", 3, created), ttl.v)
        ELSE ExchangeRate_new(base, "EUR", 3, created),
        context) :
     base \in ApplyBases, created \in 0..t, ttl \in ApplyTtls, context \in Contexts}
ApplyMoneys == {m \in Moneys : m.currency \in {"USD", "BTC", "ETH"}}

\* rate.apply(amount) at the current clock value.
Apply(rate, amount) ==
    /\ last' = [op |-> "apply", rate |-> rate, amount |-> amount, at |-> now,
                result |-> apply(rate, amount, now)]
    /\ UNCHANGED <<now, cache_vars, thread_vars, service_vars>>

NextApply ==
    \/ Tick
    \/ \E rate \in ApplyRates(now), amount \in ApplyMoneys : Apply(rate, amount)

SpecApply == InitConv /\ [][NextApply]_vars

\* ---------------------------------------------------------------- decimals
\* A decimal number is the record [unscaled_value, scale]: its value is
\* unscaled_value * 10^(-scale).  Both rust_decimal's Decimal and this
\* crate's BigDecimal are of that shape.
Dec(u, s) == [unscaled_value |-> u, scale |-> s]

RECURSIVE Pow10(_)
Pow10(k) == IF k <= 0 THEN 1 ELSE 10 * Pow10(k - 1)

Abs(x) == IF x < 0 THEN -x ELSE x
Max(a, b) == IF a >= b THEN a ELSE b

\* Rust's integer `/` and `%`: the quotient is truncated toward zero and the
\* remainder has the sign of the dividend.
trunc_div(a, b) == IF a >= 0 THEN a \div b ELSE -((-a) \div b)
trunc_rem(a, b) == a - b * trunc_div(a, b)

\* RoundingMode.
RoundingModes ==
    {"Up", "Down", "Ceiling", "Floor", "HalfUp", "HalfDown", "HalfEven", "Unnecessary"}

\* (mutant) every adjustment is made upward, whatever the remainder's sign.
round_quotient_upward(q, r, factor, mode) ==
    CASE mode = "HalfEven" ->
            IF Abs(r) > factor \div 2 \/ (Abs(r) = factor \div 2 /\ q % 2 # 0)
            THEN q + 1 ELSE q
      [] mode = "HalfUp" -> IF Abs(r) >= factor \div 2 THEN q + 1 ELSE q
      [] mode = "HalfDown" -> IF Abs(r) > factor \div 2 THEN q + 1 ELSE q
      [] mode = "Ceiling" -> IF r > 0 THEN q + 1 ELSE q
      [] mode = "Floor" -> IF r < 0 THEN q - 1 ELSE q
      [] mode = "Down" -> q
      [] mode = "Up" -> IF r # 0 THEN q + 1 ELSE q
      [] mode = "Unnecessary" -> q

\* The `match rounding_mode` of BigDecimal::with_scale when the scale
\* decreases: the new unscaled value, from quotient q and remainder r of the
\* division by factor.
round_quotient(q, r, factor, mode) ==
    CASE mode = "HalfEven" ->
            IF Abs(r) > factor \div 2 \/ (Abs(r) = factor \div 2 /\ q % 2 # 0)
            THEN q + (IF r >= 0 THEN 1 ELSE -1) ELSE q
      [] mode = "HalfUp" ->
            IF Abs(r) >= factor \div 2 THEN q + (IF r >= 0 THEN 1 ELSE -1) ELSE q
      [] mode = "HalfDown" ->
            IF Abs(r) > factor \div 2 THEN q + (IF r >= 0 THEN 1 ELSE -1) ELSE q
      [] mode = "Ceiling" -> IF r > 0 THEN q + 1 ELSE q
      [] mode = "Floor" -> IF r < 0 THEN q - 1 ELSE q
      [] mode = "Down" -> q
      [] mode = "Up" -> IF r # 0 THEN q + (IF r > 0 THEN 1 ELSE -1) ELSE q
      [] mode = "Unnecessary" -> q

\* BigDecimal::with_scale (for Unnecessary, where the division is exact).
with_scale(d, scale, mode) ==
    IF scale = d.scale THEN d
    ELSE IF scale > d.scale
    THEN Dec(d.unscaled_value * Pow10(scale - d.scale), scale)
    ELSE Dec(round_quotient(trunc_div(d.unscaled_value, Pow10(d.scale - scale)),
                            trunc_rem(d.unscaled_value, Pow10(d.scale - scale)),
                            Pow10(d.scale - scale), mode),
             scale)

\* Equality of two decimals as numbers (Decimal's PartialEq).
decimal_eq(a, b) ==
    a.unscaled_value * Pow10(Max(a.scale, b.scale) - a.scale)
        = b.unscaled_value * Pow10(Max(a.scale, b.scale) - b.scale)

\* Decimal * Decimal: the exact product.
decimal_mul(a, b) == Dec(a.unscaled_value * b.unscaled_value, a.scale + b.scale)

\* Decimal::ceil and Decimal::floor: the nearest integers above and below.
decimal_ceil(d) ==
    IF d.scale <= 0 THEN d
    ELSE Dec(round_quotient(trunc_div(d.unscaled_value, Pow10(d.scale)),
                            trunc_rem(d.unscaled_value, Pow10(d.scale)),
                            Pow10(d.scale), "Ceiling"), 0)
decimal_floor(d) ==
    IF d.scale <= 0 THEN d
    ELSE Dec(round_quotient(trunc_div(d.unscaled_value, Pow10(d.scale)),
                            trunc_rem(d.unscaled_value, Pow10(d.scale)),
                            Pow10(d.scale), "Floor"), 0)

\* Decimal::round_dp_with_strategy, for the strategies MidpointAwayFromZero,
\* MidpointTowardZero and MidpointNearestEven (the half modes): a value that
\* has no more than dp decimal places is returned as it is.
round_dp_with_strategy(d, dp, strategy) ==
    IF d.scale <= dp THEN d
    ELSE Dec(round_quotient(trunc_div(d.unscaled_value, Pow10(d.scale - dp)),
                            trunc_rem(d.unscaled_value, Pow10(d.scale - dp)),
                            Pow10(d.scale - dp), strategy), dp)

\* Monetizable for Decimal: try_to_decimal and try_from_decimal.
try_to_decimal(x) == Ok(x)
try_from_decimal(d) == Ok(d)

\* ExchangeRate::apply_rounding.
apply_rounding(rate, value) ==
    CASE rate.context.rounding_mode = "Up" -> decimal_ceil(value)
      [] rate.context.rounding_mode = "Down" -> decimal_floor(value)
      [] rate.context.rounding_mode = "HalfUp" ->
            round_dp_with_strategy(value, rate.context.max_scale, "HalfUp")
      [] rate.context.rounding_mode = "HalfDown" ->
            round_dp_with_strategy(value, rate.context.max_scale, "HalfDown")
      [] rate.context.rounding_mode = "HalfEven" ->
            round_dp_with_strategy(value, rate.context.max_scale, "HalfEven")
      [] OTHER -> value

\* The tail of apply_convert, given the two operands as decimals.
convert_rounded(rate, amount_decimal, factor_decimal) ==
    IF ~amount_decimal.ok \/ ~factor_decimal.ok THEN Err("ConversionError")
    ELSE IF ~try_from_decimal(apply_rounding(rate, decimal_mul(amount_decimal.v,
                                                              factor_decimal.v))).ok
    THEN Err("ConversionError")
    ELSE Ok(Monetary_new(
              try_from_decimal(apply_rounding(rate, decimal_mul(amount_decimal.v,
                                                                factor_decimal.v))).v,
              rate.target_currency))

\* ExchangeRate::apply_convert at clock value t.
apply_convert(rate, amount, t) ==
    IF amount.currency # rate.base_currency THEN Err("CurrencyMismatch")
    ELSE IF is_expired(rate, t) THEN Err("ExpiredRate")
    ELSE convert_rounded(rate, try_to_decimal(amount.amount), try_to_decimal(rate.factor))

\* The largest max_scale of a context in use; factors carry one decimal
\* place more, so that every context has something to round.
MaxScale == 1

RoundingContexts ==
    {[precision |-> 19, max_scale |-> s, rounding_mode |-> mode] :
        s \in 0..MaxScale, mode \in RoundingModes}
DecimalFactors == {Dec(u, MaxScale + 1) : u \in {123, 125, 135, 150, -125}}
DecimalRates ==
    {with_context(ExchangeRate_new("USD", "EUR", factor, 0), context) :
        factor \in DecimalFactors, context \in RoundingContexts}
DecimalMoneys ==
    {Monetary_new(Dec(u, 0), c) : u \in {1, -1}, c \in {"USD", "BTC"}}

\* rate.apply_convert::<Decimal>(amount) at the current clock value.
ApplyConvert(rate, amount) ==
    /\ last' = [op |-> "apply_convert", rate |-> rate, amount |-> amount, at |-> now,
                result |-> apply_convert(rate, amount, now)]
    /\ UNCHANGED <<now, cache_vars, thread_vars, service_vars>>

NextApplyConvert ==
    \E rate \in DecimalRates, amount \in DecimalMoneys : ApplyConvert(rate, amount)

SpecApplyConvert == InitConv /\ [][NextApplyConvert]_vars

\* ------------------------------------------------- threads, lock by lock
\* Concurrent calls of CachedExchangeRateProvider::get_exchange_rate and of
\* CurrencyConversion::convert on a service whose chain is the caching
\* provider, one lock operation per step.  The RwLock of the provider's
\* cache is "cp", the one of the service's rate_cache is "svc".  A position
\* is a string; the positions of a get_exchange_rate called by convert
\* carry the prefix of the second frame.
Frames == {"get:", "conv:get:"}
LockRequests == {<<"USD", "EUR">>, <<"EUR", "USD">>}

\* RwLock::read returns once no writer holds the lock.
can_read(lock) == \A u \in Threads : <<lock, "write">> \notin guards[u]

\* RwLock::write returns once nobody holds the lock.
can_write(lock) ==
    \A u \in Threads : <<lock, "read">> \notin guards[u] /\ <<lock, "write">> \notin guards[u]

\* (mutant) the read guard lives on after its block.
drop_read_guard_late(held, lock) == held

\* The read guard goes out of scope at the end of its block.
drop_read_guard(held, lock) == held \ {<<lock, "read">>}

\* (mutant) the write guard lives on after its block.
drop_write_guard_late(held, lock) == held

\* The write guard goes out of scope at the end of its block.
drop_write_guard(held, lock) == held \ {<<lock, "write">>}

\* Where a thread goes when the provider's get_exchange_rate returns `rate`
\* in the given frame: back to the caller, or on in convert, which applies
\* the rate and caches it when that succeeded.
after_provider(frame, rate, amount, t) ==
    IF frame = "get:" THEN "idle"
    ELSE IF rate.some /\ apply(rate.v, amount, t).ok THEN "conv:lock_write"
    ELSE "idle"

\* The amount a converting thread was given.
thread_amount(t) == Monetary_new(1, req[t][1])
thread_pair(t) == CurrencyPair(req[t][1], req[t][2])

\* One provider that caches the upstream's USD->EUR rate, in the chain of a
\* service; nothing cached yet.
InitLocks ==
    /\ now = 0
    /\ default_ttl = 1
    /\ upstream = insert(EmptyMap, CurrencyPair("USD", "EUR"), [factor |-> 2, ttl |-> None])
    /\ call_count = 0
    /\ cache = EmptyMap
    /\ fetched_at = EmptyMap
    /\ missed = {}
    /\ last = NoOp
    /\ pc = [t \in Threads |-> "idle"]
    /\ req = [t \in Threads |-> <<"USD", "EUR">>]
    /\ fetched = [t \in Threads |-> None]
    /\ started = 0
    /\ guards = [t \in Threads |-> {}]
    /\ static_rates = [p \in StaticProviders |-> EmptyMap]
    /\ providers = <<"CP">>
    /\ rate_cache = EmptyMap

\* A thread calls provider.get_exchange_rate(base, target).
CallGet(t, base, target) ==
    /\ pc[t] = "idle"
    /\ started < MaxLookups
    /\ pc' = [pc EXCEPT ![t] = "get:lock_read"]
    /\ req' = [req EXCEPT ![t] = <<base, target>>]
    /\ fetched' = [fetched EXCEPT ![t] = None]
    /\ started' = started + 1
    /\ UNCHANGED <<now, cache_vars, last, guards, service_vars>>

\* A thread calls service.convert(1 base, target); the currencies differ.
CallConvert(t, base, target) ==
    /\ pc[t] = "idle"
    /\ started < MaxLookups
    /\ ~same_currency(Monetary_new(1, base), target)
    /\ pc' = [pc EXCEPT ![t] = "conv:lock_read"]
    /\ req' = [req EXCEPT ![t] = <<base, target>>]
    /\ fetched' = [fetched EXCEPT ![t] = None]
    /\ started' = started + 1
    /\ UNCHANGED <<now, cache_vars, last, guards, service_vars>>

\* self.cache.read()
CpLockRead(t, frame) ==
    /\ pc[t] = frame \o "lock_read"
    /\ can_read("cp")
    /\ guards' = [guards EXCEPT ![t] = @ \cup {<<"cp", "read">>}]
    /\ pc' = [pc EXCEPT ![t] = frame \o "reading"]
    /\ UNCHANGED <<now, cache_vars, last, req, fetched, started, service_vars>>

\* The outcome `hit` of the fast read path; the block ends.
CpReadDone(t, frame, hit) ==
    /\ pc[t] = frame \o "reading"
    /\ guards' = [guards EXCEPT ![t] = drop_read_guard(@, "cp")]
    /\ fetched' = [fetched EXCEPT ![t] = hit]
    /\ pc' = [pc EXCEPT ![t] =
                IF hit.some THEN after_provider(frame, hit, thread_amount(t), now)
                ELSE frame \o "upstream"]
    /\ UNCHANGED <<now, cache_vars, last, req, started, service_vars>>

CpRead(t, frame) == CpReadDone(t, frame, read_path(cache, thread_pair(t), now))

\* The outcome `up` of self.upstream_provider.get_exchange_rate.
CpUpstreamDone(t, frame, up) ==
    /\ pc[t] = frame \o "upstream"
    /\ call_count' = call_count + 1
    /\ fetched' = [fetched EXCEPT ![t] = up]
    /\ pc' = [pc EXCEPT ![t] =
                IF up.some THEN frame \o "lock_write"
                ELSE after_provider(frame, None, thread_amount(t), now)]
    /\ UNCHANGED <<now, default_ttl, upstream, cache, fetched_at, missed, last,
                   req, started, guards, service_vars>>

CpUpstream(t, frame) ==
    CpUpstreamDone(t, frame,
                   upstream_get_exchange_rate(upstream, req[t][1], req[t][2], now))

\* self.cache.write()
CpLockWrite(t, frame) ==
    /\ pc[t] = frame \o "lock_write"
    /\ can_write("cp")
    /\ guards' = [guards EXCEPT ![t] = @ \cup {<<"cp", "write">>}]
    /\ pc' = [pc EXCEPT ![t] = frame \o "writing"]
    /\ UNCHANGED <<now, cache_vars, last, req, fetched, started, service_vars>>

\* The insertion and the cleanup under the write lock; Some(rate) returns.
CpWrite(t, frame) ==
    /\ pc[t] = frame \o "writing"
    /\ cache' = write_path(cache, thread_pair(t), fetched[t].v, default_ttl, now)
    /\ guards' = [guards EXCEPT ![t] = drop_write_guard(@, "cp")]
    /\ pc' = [pc EXCEPT ![t] =
                after_provider(frame, slow_path_result(fetched[t].v, default_ttl),
                               thread_amount(t), now)]
    /\ UNCHANGED <<now, default_ttl, upstream, call_count, fetched_at, missed, last,
                   req, fetched, started, service_vars>>

\* self.rate_cache.read()
SvcLockRead(t) ==
    /\ pc[t] = "conv:lock_read"
    /\ can_read("svc")
    /\ guards' = [guards EXCEPT ![t] = @ \cup {<<"svc", "read">>}]
    /\ pc' = [pc EXCEPT ![t] = "conv:reading"]
    /\ UNCHANGED <<now, cache_vars, last, req, fetched, started, service_vars>>

\* "Check cache first", with outcome `hit`; the block ends.  On a hit
\* convert returns; on a miss it calls the provider.
SvcReadDone(t, hit) ==
    /\ pc[t] = "conv:reading"
    /\ guards' = [guards EXCEPT ![t] = drop_read_guard(@, "svc")]
    /\ fetched' = [fetched EXCEPT ![t] = hit]
    /\ pc' = [pc EXCEPT ![t] = IF hit.some THEN "idle" ELSE "conv:get:lock_read"]
    /\ UNCHANGED <<now, cache_vars, last, req, started, service_vars>>

SvcRead(t) == SvcReadDone(t, service_cache_lookup(rate_cache, thread_pair(t), now))

\* self.rate_cache.write()
SvcLockWrite(t) ==
    /\ pc[t] = "conv:lock_write"
    /\ can_write("svc")
    /\ guards' = [guards EXCEPT ![t] = @ \cup {<<"svc", "write">>}]
    /\ pc' = [pc EXCEPT ![t] = "conv:writing"]
    /\ UNCHANGED <<now, cache_vars, last, req, fetched, started, service_vars>>

\* cache.insert(pair, rate); the block ends and convert returns.
SvcWrite(t) ==
    /\ pc[t] = "conv:writing"
    /\ rate_cache' = insert(rate_cache, thread_pair(t), fetched[t].v)
    /\ guards' = [guards EXCEPT ![t] = drop_write_guard(@, "svc")]
    /\ pc' = [pc EXCEPT ![t] = "idle"]
    /\ UNCHANGED <<now, cache_vars, last, req, fetched, started, static_rates, providers>>

\* The steps of a thread inside a call.
ThreadStep(t) ==
    \/ \E frame \in Frames : CpLockRead(t, frame)
    \/ \E frame \in Frames : CpRead(t, frame)
    \/ \E frame \in Frames : CpUpstream(t, frame)
    \/ \E frame \in Frames : CpLockWrite(t, frame)
    \/ \E frame \in Frames : CpWrite(t, frame)
    \/ SvcLockRead(t)
    \/ SvcRead(t)
    \/ SvcLockWrite(t)
    \/ SvcWrite(t)

NextLocks ==
    \/ \E t \in Threads, r \in LockRequests : CallGet(t, r[1], r[2])
    \/ \E t \in Threads, r \in LockRequests : CallConvert(t, r[1], r[2])
    \/ \E t \in Threads : ThreadStep(t)

SpecLocks == InitLocks /\ [][NextLocks]_vars

\* The scheduler is fair to every thread, and the upstream returns.
SpecLocksFair == SpecLocks /\ \A t \in Threads : WF_vars(ThreadStep(t))

\* --------------------------------------------------------------- convert_to
\* (mutant) convert_to goes through the service cache as convert does.
convert_to_from_cached(rc, c, pair, amount, target, t, f) ==
    IF same_currency(amount, target) THEN
        [result |-> Ok(Monetary_new(amount.amount, target)), index |-> 0,
         consulted |-> 0, rate_cache |-> rc, cache |-> c,
         up_called |-> FALSE, up |-> None]
    ELSE IF service_cache_lookup(rc, pair, t).some THEN
        [result |-> apply_convert(service_cache_lookup(rc, pair, t).v, amount, t),
         index |-> 0, consulted |-> 0, rate_cache |-> rc, cache |-> c,
         up_called |-> FALSE, up |-> None]
    ELSE IF f.rate.some THEN
        [result |-> apply_convert(f.rate.v, amount, t), index |-> f.index,
         consulted |-> f.consulted,
         rate_cache |-> insert(rc, pair, f.rate.v), cache |-> f.cache,
         up_called |-> f.up_called, up |-> f.up]
    ELSE
        [result |-> Err("NoRateFound"), index |-> 0, consulted |-> f.consulted,
         rate_cache |-> rc, cache |-> f.cache, up_called |-> f.up_called, up |-> f.up]

\* The fast path of convert_to: the amount converted to the target type,
\* in a new Monetary of the target currency.
convert_type(amount_decimal, target) ==
    IF ~amount_decimal.ok THEN Err("ConversionError")
    ELSE IF ~try_from_decimal(amount_decimal.v).ok THEN Err("ConversionError")
    ELSE Ok(Monetary_new(try_from_decimal(amount_decimal.v).v, target))

\* convert_to, given the outcome f of the provider loop when it is run.
convert_to_from(rc, c, pair, amount, target, t, f) ==
    IF same_currency(amount, target) THEN
        [result |-> convert_type(try_to_decimal(amount.amount), target), index |-> 0,
         consulted |-> 0, rate_cache |-> rc, cache |-> c,
         up_called |-> FALSE, up |-> None]
    ELSE IF f.rate.some THEN
        [result |-> apply_convert(f.rate.v, amount, t), index |-> f.index,
         consulted |-> f.consulted, rate_cache |-> rc, cache |-> f.cache,
         up_called |-> f.up_called, up |-> f.up]
    ELSE
        [result |-> Err("NoRateFound"), index |-> 0, consulted |-> f.consulted,
         rate_cache |-> rc, cache |-> f.cache, up_called |-> f.up_called, up |-> f.up]

\* CurrencyConversion::convert_to::<Decimal>: [result, index, consulted,
\* rate_cache, cache, up_called, up].
convert_to(rc, chain, srates, c, table, ttl, amount, target, t) ==
    convert_to_from(rc, c, CurrencyPair(amount.currency, target), amount, target, t,
                    try_providers(chain, srates, c, table, ttl,
                                  amount.currency, target, t))

\* Services on which convert_to is called: static providers quoting decimal
\* factors, in any chain, and a rate cache that is empty or holds the rate
\* an earlier convert got from the chain.
DecimalRateTables ==
    {[p \in StaticProviders |-> EmptyMap],
     [p \in StaticProviders |->
         IF p = "S1" THEN add_rate(EmptyMap, "BTC", "USD", Dec(125, 2))
         ELSE add_rate(EmptyMap, "EUR", "USD", Dec(15, 1))],
     [p \in StaticProviders |->
         IF p = "S1" THEN add_rate(EmptyMap, "BTC", "USD", Dec(125, 2))
         ELSE add_rate(add_rate(EmptyMap, "EUR", "USD", Dec(15, 1)),
                       "BTC", "USD", Dec(15, 1))]}
Chains == {<< >>, <<"S1">>, <<"S2">>, <<"S1", "S2">>, <<"S2", "S1">>}
warm_caches(srates, chain) ==
    {EmptyMap} \cup
    {insert(EmptyMap, CurrencyPair(base, "USD"),
            try_providers(chain, srates, EmptyMap, EmptyMap, 1, base, "USD", 0).rate.v) :
        base \in {b \in {"BTC", "EUR"} :
                    try_providers(chain, srates, EmptyMap, EmptyMap, 1, b, "USD", 0).rate.some}}
ConvertToMoneys ==
    {Monetary_new(Dec(u, 0), c) : u \in {1, -3}, c \in Currencies}
ConvertToTargets == {"USD", "ETH"}

InitConvertTo ==
    /\ now = 0
    /\ default_ttl = 1
    /\ upstream = EmptyMap
    /\ call_count = 0
    /\ cache = EmptyMap
    /\ fetched_at = EmptyMap
    /\ missed = {}
    /\ last = NoOp
    /\ pc = [t \in Threads |-> "idle"]
    /\ req = [t \in Threads |-> <<"USD", "EUR">>]
    /\ fetched = [t \in Threads |-> None]
    /\ started = 0
    /\ guards = [t \in Threads |-> {}]
    /\ static_rates \in DecimalRateTables
    /\ providers \in Chains
    /\ rate_cache \in warm_caches(static_rates, providers)

\* The effect of one whole call of convert_to whose outcome is r.
ConvertToDone(amount, target, r) ==
    /\ rate_cache' = r.rate_cache
    /\ cache' = r.cache
    /\ last' = [op |-> "convert_to", amount |-> amount, target |-> target, at |-> now,
                result |-> r.result, index |-> r.index, consulted |-> r.consulted,
                entry_before |-> get(rate_cache, CurrencyPair(amount.currency, target)),
                cache_before |-> rate_cache, chain |-> providers]
    /\ UNCHANGED <<now, default_ttl, upstream, call_count, fetched_at, missed,
                   thread_vars, static_rates, providers>>

\* One whole call of convert_to(amount, target) on a service whose chain
\* holds static providers.
ConvertTo(amount, target) ==
    ConvertToDone(amount, target,
                  convert_to(rate_cache, providers, static_rates, cache, upstream,
                             default_ttl, amount, target, now))

NextConvertTo ==
    \E amount \in ConvertToMoneys, target \in ConvertToTargets : ConvertTo(amount, target)

SpecConvertTo == InitConvertTo /\ [][NextConvertTo]_vars

\* ------------------------------------------------- Monetary arithmetic
\* The unscaled value is an i128; the model keeps a word of WordBits bits.
WordBits == 12
MinWord == -(2 ^ (WordBits - 1))
MaxWord == 2 ^ (WordBits - 1) - 1
fits(v) == MinWord <= v /\ v <= MaxWord
wrapping(v) == ((v - MinWord) % (2 ^ WordBits)) + MinWord

\* Outcome of an arithmetic expression: a value, or the panic of a build
\* with overflow checks.
Value(v) == [v |-> v, panic |-> FALSE]
Panicked == [panic |-> TRUE]

\* BigDecimal::with_scale to a scale not below the decimal's own: the
\* unscaled value times 10^(scale - d.scale), no rounding.
scale_up(d, scale, checks) ==
    IF scale = d.scale THEN Value(d)
    ELSE IF checks /\ (\/ ~fits(Pow10(scale - d.scale))
                       \/ ~fits(d.unscaled_value * Pow10(scale - d.scale)))
        THEN Panicked
    ELSE Value(Dec(wrapping(d.unscaled_value * Pow10(scale - d.scale)), scale))

\* The unscaled values of two decimals of one scale added (sign = 1) or
\* subtracted (sign = -1).
combine(a, b, sign, checks) ==
    IF a.panic \/ b.panic THEN Panicked
    ELSE IF checks /\ ~fits(a.v.unscaled_value + sign * b.v.unscaled_value)
        THEN Panicked
    ELSE Value(Dec(wrapping(a.v.unscaled_value + sign * b.v.unscaled_value),
                   a.v.scale))

\* BigDecimal::add and BigDecimal::subtract (the + and - of BigDecimal).
BigDecimal_add(x, y, checks) ==
    combine(scale_up(x, Max(x.scale, y.scale), checks),
            scale_up(y, Max(x.scale, y.scale), checks), 1, checks)
BigDecimal_subtract(x, y, checks) ==
    combine(scale_up(x, Max(x.scale, y.scale), checks),
            scale_up(y, Max(x.scale, y.scale), checks), -1, checks)

\* a == b once both have the larger scale.
same_unscaled(a, b) ==
    IF a.panic \/ b.panic THEN Panicked
    ELSE Value(a.v.unscaled_value = b.v.unscaled_value)

\* (mutant) equality of representations instead of values.
same_representation(x, y, checks) == Value(x = y)

\* PartialEq for BigDecimal.
BigDecimal_eq(x, y, checks) ==
    same_unscaled(scale_up(x, Max(x.scale, y.scale), checks),
                  scale_up(y, Max(x.scale, y.scale), checks))

is_compatible_with(self, other) == self.currency = other.currency

\* (mutant) the result takes the context of the right operand.
with_amount_of_right(amount, self, other) ==
    IF amount.panic THEN Panicked
    ELSE Value(Ok(Monetary_new_with_context(amount.v, self.currency, other.context)))

\* The Ok of safe_add and safe_subtract: a new Monetary with the computed
\* amount and the currency and context of self.
with_amount(amount, self, other) ==
    IF amount.panic THEN Panicked
    ELSE Value(Ok(Monetary_new_with_context(amount.v, self.currency, self.context)))

\* Monetary::safe_add and the + operator.
safe_add(self, other, checks) ==
    IF ~is_compatible_with(self, other) THEN Value(Err("CurrencyMismatch"))
    ELSE with_amount(BigDecimal_add(self.amount, other.amount, checks), self, other)

\* Monetary::safe_subtract and the - operator.
safe_subtract(self, other, checks) ==
    IF ~is_compatible_with(self, other) THEN Value(Err("CurrencyMismatch"))
    ELSE with_amount(BigDecimal_subtract(self.amount, other.amount, checks), self, other)

\* Monetary::zero.
zero(currency) == Monetary_new(Dec(0, 0), currency)

\* The derived PartialEq of Monetary: amount, currency and context.
Monetary_eq(a, b, checks) ==
    IF a.currency # b.currency \/ a.context # b.context
        THEN IF BigDecimal_eq(a.amount, b.amount, checks).panic THEN Panicked
             ELSE Value(FALSE)
    ELSE BigDecimal_eq(a.amount, b.amount, checks)

\* a - b of two outcomes of Monetary expressions.
then_subtract(sum, y, checks) ==
    IF sum.panic THEN Panicked
    ELSE IF ~sum.v.ok THEN sum
    ELSE safe_subtract(sum.v.v, y, checks)

\* lhs == x for the outcome lhs of a Monetary expression.
equals(lhs, x, checks) ==
    IF lhs.panic THEN Panicked
    ELSE IF ~lhs.v.ok THEN Value(FALSE)
    ELSE Monetary_eq(lhs.v.v, x, checks)

\* Operands well inside the word: amounts of several scales, currencies
\* with equal and with different numeric codes, both contexts.
MoneyValues ==
    {Monetary_new_with_context(Dec(u, s), c, x) :
        u \in {-15, 12}, s \in {0, 1}, c \in {"USD", "BTC", "ETH"}, x \in Contexts}
OtherValues ==
    {Monetary_new_with_context(a, c, x) :
        a \in {Dec(5, 1), Dec(0, 0), Dec(-15, -1)}, c \in {"USD", "ETH"}, x \in Contexts}

\* One whole call of x + y (safe_add) in either build.
Add(x, y, checks) ==
    /\ last' = [op |-> "add", x |-> x, y |-> y,
                result |-> safe_add(x, y, checks)]
    /\ UNCHANGED <<now, cache_vars, thread_vars, static_rates, providers, rate_cache>>

\* One whole call of x - y (safe_subtract) in either build.
Sub(x, y, checks) ==
    /\ last' = [op |-> "sub", x |-> x, y |-> y,
                result |-> safe_subtract(x, y, checks)]
    /\ UNCHANGED <<now, cache_vars, thread_vars, static_rates, providers, rate_cache>>

\* zero(c) + x and x + zero(c) for the currency c of x, each compared
\* with x.
AddZero(x, checks) ==
    /\ last' = [op |-> "add_zero", x |-> x,
                left |-> safe_add(zero(x.currency), x, checks),
                right |-> safe_add(x, zero(x.currency), checks),
                left_equal |-> equals(safe_add(zero(x.currency), x, checks), x, checks),
                right_equal |-> equals(safe_add(x, zero(x.currency), checks), x, checks)]
    /\ UNCHANGED <<now, cache_vars, thread_vars, static_rates, providers, rate_cache>>

NextMoney ==
    \/ \E x \in MoneyValues, y \in OtherValues, checks \in BOOLEAN : Add(x, y, checks)
    \/ \E x \in MoneyValues, y \in OtherValues, checks \in BOOLEAN : Sub(x, y, checks)
    \/ \E x \in MoneyValues, checks \in BOOLEAN : AddZero(x, checks)

SpecMoney == InitConv /\ [][NextMoney]_vars

\* Operands over the whole word, of scales up to four apart.
WordAmounts ==
    {Dec(u, s) : u \in {MinWord, -13, 0, 7, MaxWord}, s \in {-1, 0, 3}}
WordValues ==
    {Monetary_new_with_context(a, "USD", x) : a \in WordAmounts, x \in Contexts}
WordOthers == {Monetary_new(a, "USD") : a \in WordAmounts}

\* The effect of evaluating (x + y) - y, with outcome back, and comparing
\* it with x.
RoundTripDone(x, y, checks, back) ==
    /\ last' = [op |-> "round_trip", x |-> x, y |-> y, checks |-> checks,
                back |-> back, equal |-> equals(back, x, checks)]
    /\ UNCHANGED <<now, cache_vars, thread_vars, static_rates, providers, rate_cache>>

\* (x + y) - y compared with x, in either build.
RoundTrip(x, y, checks) ==
    RoundTripDone(x, y, checks, then_subtract(safe_add(x, y, checks), y, checks))

NextRoundTrip ==
    \E x \in WordValues, y \in WordOthers, checks \in BOOLEAN : RoundTrip(x, y, checks)

SpecRoundTrip == InitConv /\ [][NextRoundTrip]_vars

\* -------------------------------------------------------------- rescaling
\* (mutant) the Unnecessary arm divides without looking at the remainder.
never_necessary(d, scale, mode) == FALSE

\* The panic!("Rounding necessary but RoundingMode::Unnecessary specified")
\* of with_scale: the scale goes down, the mode is Unnecessary and the
\* remainder is not zero.
rounding_necessary(d, scale, mode) ==
    /\ scale < d.scale
    /\ mode = "Unnecessary"
    /\ trunc_rem(d.unscaled_value, Pow10(d.scale - scale)) # 0

\* One whole call of BigDecimal::with_scale: the decimal it returns, or its
\* panic.
with_scale_outcome(d, scale, mode) ==
    IF rounding_necessary(d, scale, mode) THEN Panicked
    ELSE Value(with_scale(d, scale, mode))

\* The second with_scale of a chain: it is called when the first returned.
then_with_scale(first, scale, mode) ==
    IF first.panic THEN Panicked ELSE with_scale_outcome(first.v, scale, mode)

\* Decimals of either sign whose last one or two digits lie below, at and
\* above the half.
RescaleUnscaled == {-250, -151, -150, -25, -15, -6, -5, -4, 0, 4, 5, 6, 15, 25, 149, 150, 250}
RescaleDecimals == {Dec(u, s) : u \in RescaleUnscaled, s \in {1, 2}}
RescaleScales == {0, 1, 3}

\* One whole call of d.with_scale(scale, mode).
WithScale(d, scale, mode) ==
    /\ last' = [op |-> "with_scale", d |-> d, scale |-> scale, mode |-> mode,
                result |-> with_scale_outcome(d, scale, mode)]
    /\ UNCHANGED <<now, cache_vars, thread_vars, static_rates, providers, rate_cache>>

\* d.with_scale(wide, mode).with_scale(narrow, Unnecessary) beside
\* d.with_scale(narrow, mode), for narrow <= wide.
Rescale2(d, wide, narrow, mode) ==
    /\ narrow <= wide
    /\ last' = [op |-> "rescale2", d |-> d, wide |-> wide, narrow |-> narrow,
                mode |-> mode,
                chained |-> then_with_scale(with_scale_outcome(d, wide, mode),
                                            narrow, "Unnecessary"),
                direct |-> with_scale_outcome(d, narrow, mode)]
    /\ UNCHANGED <<now, cache_vars, thread_vars, static_rates, providers, rate_cache>>

ComposeDecimals == {Dec(u, s) : u \in {-150, -96, -15, 0, 5, 96, 100}, s \in {1, 2}}
ComposeScales == {-1, 0, 1, 2}

NextRescale ==
    \E d \in RescaleDecimals, scale \in RescaleScales, mode \in RoundingModes :
        WithScale(d, scale, mode)

SpecRescale == InitConv /\ [][NextRescale]_vars

NextRescale2 ==
    \E d \in ComposeDecimals, wide \in ComposeScales, narrow \in ComposeScales,
       mode \in RoundingModes : Rescale2(d, wide, narrow, mode)

SpecRescale2 == InitConv /\ [][NextRescale2]_vars

\* --------------------------------------------------------------- division
\* The guard digits of BigDecimal::divide (ten in the source, fewer here so
\* that the scaled dividend stays a machine integer of the checker).
GuardDigits == 2

\* The `if other.unscaled_value == 0` of BigDecimal::divide.
zero_divisor(other) == other.unscaled_value = 0

\* The Ok of divide: the rescaled quotient, or with_scale's panic.
quotient_outcome(rescaled) ==
    IF rescaled.panic THEN Panicked ELSE Value(Ok(rescaled.v))

\* BigDecimal::divide: Err for a zero divisor; otherwise the dividend
\* scaled by 10^(target_scale + guard), divided with truncation, at scale
\* self.scale - other.scale + target_scale + guard, then with_scale.
divide(self, other, mode, target_scale) ==
    IF zero_divisor(other) THEN Value(Err("DivisionByZero"))
    ELSE quotient_outcome(
           with_scale_outcome(
             Dec(trunc_div(self.unscaled_value * Pow10(target_scale + GuardDigits),
                           other.unscaled_value),
                 self.scale - other.scale + target_scale + GuardDigits),
             target_scale, mode))

Dividends == {Dec(u, s) : u \in {-501, 1, 7}, s \in {0, 1}}
Divisors == {Dec(u, s) : u \in {-3, 0, 2, 1000}, s \in {0, 1}}
TargetScales == {0, 1}

\* One whole call of x.divide(y, mode, target_scale).
Divide(x, y, mode, target_scale) ==
    /\ last' = [op |-> "divide", x |-> x, y |-> y, mode |-> mode,
                target_scale |-> target_scale,
                result |-> divide(x, y, mode, target_scale)]
    /\ UNCHANGED <<now, cache_vars, thread_vars, static_rates, providers, rate_cache>>


\* ------------------------------------------------------- text of decimals
\* Texts are sequences of characters.
DigitChars == <<"0", "1", "2", "3", "4", "5", "6", "7", "8", "9">>

\* The decimal digits of a natural number, most significant first.
RECURSIVE digits(_)
digits(n) == IF n < 10 THEN <<DigitChars[n + 1]>>
             ELSE Append(digits(n \div 10), DigitChars[(n % 10) + 1])

\* write!("{}", n) of an integer.
display_int(n) == IF n < 0 THEN <<"-">> \o digits(-n) ELSE digits(n)

\* write!("{:0width$}", n) of a natural number: zeros in front up to width.
RECURSIVE pad_zeros(_, _)
pad_zeros(text, width) ==
    IF Len(text) >= width THEN text ELSE pad_zeros(<<"0">> \o text, width)

\* (mutant) a negative value below one in magnitude is written as the others.
never_negative_fraction(integer_part, unscaled_value) == FALSE

\* The `integer_part == 0 && self.unscaled_value < 0` of Display.
negative_fraction(integer_part, unscaled_value) ==
    integer_part = 0 /\ unscaled_value < 0

\* Display for BigDecimal.
fmt(d) ==
    IF d.scale = 0 THEN display_int(d.unscaled_value)
    ELSE IF d.scale > 0 THEN
        IF negative_fraction(trunc_div(d.unscaled_value, Pow10(d.scale)), d.unscaled_value)
        THEN <<"-", "0", ".">>
               \o pad_zeros(digits(Abs(d.unscaled_value) % Pow10(d.scale)), d.scale)
        ELSE display_int(trunc_div(d.unscaled_value, Pow10(d.scale))) \o <<".">>
               \o pad_zeros(digits(Abs(d.unscaled_value) % Pow10(d.scale)), d.scale)
    ELSE display_int(d.unscaled_value * Pow10(-d.scale))

\* str::trim for blanks.
RECURSIVE trim(_)
trim(text) ==
    IF text = << >> THEN text
    ELSE IF Head(text) = " " THEN trim(Tail(text))
    ELSE IF text[Len(text)] = " " THEN trim(SubSeq(text, 1, Len(text) - 1))
    ELSE text

\* str::split('.'): the parts between the dots.
RECURSIVE split_dots(_, _, _)
split_dots(text, current, parts) ==
    IF text = << >> THEN Append(parts, current)
    ELSE IF Head(text) = "." THEN split_dots(Tail(text), << >>, Append(parts, current))
    ELSE split_dots(Tail(text), Append(current, Head(text)), parts)

digit_value(c) == CHOOSE i \in 0..9 : DigitChars[i + 1] = c
is_digit(c) == \E i \in 0..9 : DigitChars[i + 1] = c

\* The value of a non-empty run of digits.
RECURSIVE digits_value(_, _)
digits_value(text, acc) ==
    IF text = << >> THEN acc
    ELSE digits_value(Tail(text), 10 * acc + digit_value(Head(text)))

all_digits(text) == text # << >> /\ \A i \in 1..Len(text) : is_digit(text[i])

\* str::parse::<i128>: an optional sign and at least one digit.
parse_i128(text) ==
    IF text # << >> /\ Head(text) \in {"-", "+"}
    THEN IF all_digits(Tail(text))
         THEN Ok((IF Head(text) = "-" THEN -1 ELSE 1) * digits_value(Tail(text), 0))
         ELSE Err("ParseIntError")
    ELSE IF all_digits(text) THEN Ok(digits_value(text, 0)) ELSE Err("ParseIntError")

\* The two-part arm of from_str for fraction and integer parts that parsed.
with_fraction(s, integer_part, scale, fraction_value) ==
    IF integer_part = <<"0">> \/ integer_part = <<"-", "0">> THEN
        Ok(Dec(IF Head(s) = "-" THEN -fraction_value ELSE fraction_value, scale))
    ELSE IF ~parse_i128(integer_part).ok THEN Err("Invalid integer part")
    ELSE IF parse_i128(integer_part).v < 0
        THEN Ok(Dec(parse_i128(integer_part).v * Pow10(scale) - fraction_value, scale))
    ELSE Ok(Dec(parse_i128(integer_part).v * Pow10(scale) + fraction_value, scale))

\* from_str once the text is trimmed and split.
from_parts(s, parts) ==
    IF s = << >> THEN Err("Empty string")
    ELSE IF Len(parts) = 1 THEN
        IF parse_i128(parts[1]).ok THEN Ok(Dec(parse_i128(parts[1]).v, 0))
        ELSE Err("Invalid number format")
    ELSE IF Len(parts) = 2 THEN
        IF parts[2] = << >> THEN Err("Empty fraction part")
        ELSE IF ~parse_i128(parts[2]).ok THEN Err("Invalid fraction part")
        ELSE with_fraction(s, parts[1], Len(parts[2]), parse_i128(parts[2]).v)
    ELSE Err("Invalid number format")

\* FromStr for BigDecimal.
from_str(text) == from_parts(trim(text), split_dots(trim(text), << >>, << >>))

\* Decimals of scales 0 to 3 around zero and with several digits.
MaxDigits == 3
TextUnscaled == (-24..24) \cup {-1234, -1005, -1000, -100, 99, 100, 105, 1000, 1234}
TextDecimals == {Dec(u, s) : u \in TextUnscaled, s \in 0..MaxDigits}
Texts == {<<"-", "0">>, <<"-", "0", ".", "0">>, << >>, <<"1", ".">>, <<"1", ".", "2", ".", "3">>,
          <<" ", "7", ".", "5", " ">>, <<".", "5">>, <<"1", ".", "-", "5">>, <<"x">>}

\* format!("{}", d) followed by from_str of the text.
FormatParse(d) ==
    /\ last' = [op |-> "format_parse", d |-> d, text |-> fmt(d),
                parsed |-> from_str(fmt(d))]
    /\ UNCHANGED <<now, cache_vars, thread_vars, static_rates, providers, rate_cache>>

\* from_str of a text.
Parse(text) ==
    /\ last' = [op |-> "parse", text |-> text, parsed |-> from_str(text)]
    /\ UNCHANGED <<now, cache_vars, thread_vars, static_rates, providers, rate_cache>>

NextText ==
    \/ \E d \in TextDecimals : FormatParse(d)
    \/ \E text \in Texts : Parse(text)

SpecText == InitConv /\ [][NextText]_vars

\* ------------------------------------------- scalar and percentage operations
\* The scale 8 that the * and / of BigDecimal aim at (smaller here so that
\* the scaled values stay machine integers of the checker).
OperatorScale == 3

\* Result::unwrap_or_else(|_| BigDecimal::zero()) of a divide that returned.
unwrap_or_zero(r) == IF r.v.ok THEN r.v.v ELSE Dec(0, 0)

\* Div for BigDecimal: divide with HalfEven at the operator's scale, zero
\* when divide fails.
BigDecimal_div(self, other) ==
    unwrap_or_zero(divide(self, other, "HalfEven", OperatorScale))

\* Mul for BigDecimal: the product at the larger of the summed scales and
\* the operator's scale.
BigDecimal_mul(self, other) ==
    with_scale(Dec(self.unscaled_value * other.unscaled_value, self.scale + other.scale),
               Max(self.scale + other.scale, OperatorScale), "HalfEven")

\* Backing types with a decimal representation.
DecimalBackings == {"Decimal", "BigDecimal"}

\* self.amount * scalar in the backing type T.
amount_mul(T, a, b) ==
    IF T = "BigDecimal" THEN BigDecimal_mul(a, b) ELSE decimal_mul(a, b)

\* Monetary::multiply_by.
multiply_by(T, self, scalar) ==
    Monetary_new_with_context(amount_mul(T, self.amount, scalar),
                              self.currency, self.context)

\* Monetary::divide_by of a BigDecimal-backed value.
divide_by(self, scalar) ==
    Monetary_new_with_context(BigDecimal_div(self.amount, scalar),
                              self.currency, self.context)

\* MonetaryContext::apply_precision: round_bigdecimal (with_scale to
\* max_scale with the context's mode) for BigDecimal, the value as it is
\* for every other type.
apply_precision(T, context, value) ==
    IF T = "BigDecimal"
    THEN with_scale_outcome(value, context.max_scale, context.rounding_mode)
    ELSE Value(value)

\* Monetary::apply_context for a precision outcome.
context_applied(self, rounded) ==
    IF rounded.panic THEN Panicked
    ELSE Value(Ok(Monetary_new_with_context(rounded.v, self.currency, self.context)))
apply_context(T, self) ==
    context_applied(self, apply_precision(T, self.context, self.amount))

\* A decimal without trailing zeros after the point.
RECURSIVE strip_zeros(_)
strip_zeros(d) ==
    IF d.scale > 0 /\ d.unscaled_value % 10 = 0
    THEN strip_zeros(Dec(d.unscaled_value \div 10, d.scale - 1))
    ELSE d

\* The f64 values 1.0 + percentage / 100.0 and percentage / 100.0 for a
\* whole percentage, as the shortest text that denotes them.
one_plus_percent(percentage) == fmt(strip_zeros(Dec(100 + percentage, 2)))
percent(percentage) == fmt(strip_zeros(Dec(percentage, 2)))

\* T::try_from_f64 of a finite value: the decimal its text denotes.
try_from_f64(T, val) ==
    IF from_str(val).ok THEN Ok(from_str(val).v) ELSE Err("ConversionError")

\* The body shared by apply_percentage and percentage_of.
with_multiplier(T, self, multiplier) ==
    IF ~multiplier.ok THEN Value(multiplier)
    ELSE apply_context(T, multiply_by(T, self, multiplier.v))

\* Monetary::apply_percentage and Monetary::percentage_of.
apply_percentage(T, self, percentage) ==
    with_multiplier(T, self, try_from_f64(T, one_plus_percent(percentage)))
percentage_of(T, self, percentage) ==
    with_multiplier(T, self, try_from_f64(T, percent(percentage)))

ScalarMoneys ==
    {Monetary_new_with_context(Dec(u, 1), "USD", x) : u \in {-15, 0, 7, 20}, x \in Contexts}

\* One whole call of m.divide_by(scalar) on a BigDecimal-backed value.
DivideBy(m, scalar) ==
    /\ last' = [op |-> "divide_by", m |-> m, scalar |-> scalar,
                result |-> divide_by(m, scalar)]
    /\ UNCHANGED <<now, cache_vars, thread_vars, static_rates, providers, rate_cache>>

NextScalar ==
    \/ \E x \in Dividends, y \in Divisors, mode \in RoundingModes, t \in TargetScales :
          Divide(x, y, mode, t)
    \/ \E m \in ScalarMoneys, scalar \in Divisors : DivideBy(m, scalar)

SpecScalar == InitConv /\ [][NextScalar]_vars

PercentAmounts == {Dec(100555, 3), Dec(-15, 1), Dec(7, 0)}
PercentMoneys ==
    {Monetary_new_with_context(a, "USD", x) : a \in PercentAmounts, x \in RoundingContexts}
Percentages == {-5, 10, 100}

\* One whole call of m.apply_percentage(percentage) for backing type T.
ApplyPercentage(T, m, percentage) ==
    /\ last' = [op |-> "apply_percentage", T |-> T, m |-> m, percentage |-> percentage,
                result |-> apply_percentage(T, m, percentage)]
    /\ UNCHANGED <<now, cache_vars, thread_vars, static_rates, providers, rate_cache>>

\* One whole call of m.percentage_of(percentage) for backing type T.
PercentageOf(T, m, percentage) ==
    /\ last' = [op |-> "percentage_of", T |-> T, m |-> m, percentage |-> percentage,
                result |-> percentage_of(T, m, percentage)]
    /\ UNCHANGED <<now, cache_vars, thread_vars, static_rates, providers, rate_cache>>

NextPercent ==
    \/ \E T \in DecimalBackings, m \in PercentMoneys, p \in Percentages :
          ApplyPercentage(T, m, p)
    \/ \E T \in DecimalBackings, m \in PercentMoneys, p \in Percentages :
          PercentageOf(T, m, p)

SpecPercent == InitConv /\ [][NextPercent]_vars

\* ------------------------------------------- StaticRateProvider, on its own
\* The add_rate calls made so far on each provider, by the currencies they
\* named: the factor most recently added for (provider, base, target).
added_so_far == IF last.op \in {"add_rate", "get_exchange_rate"} THEN last.added
                ELSE EmptyMap

\* Arguments of add_rate and get_exchange_rate on the provider.
StaticBases == {"BTC", "ETH", "EUR"}
StaticTargets == {"USD"}
StaticFactors == {2, 3}

\* provider.add_rate(base, target, rate).
StaticAddRate(p, base, target, rate) ==
    /\ static_rates' = [static_rates EXCEPT ![p] = add_rate(@, base, target, rate)]
    /\ last' = [op |-> "add_rate", p |-> p, base |-> base, target |-> target,
                rate |-> rate,
                added |-> insert(added_so_far, <<p, base, target>>, rate)]
    /\ UNCHANGED <<now, cache_vars, thread_vars, providers, rate_cache>>

\* provider.get_exchange_rate(base, target).
StaticLookup(p, base, target) ==
    /\ last' = [op |-> "get_exchange_rate", p |-> p, base |-> base,
                target |-> target,
                result |-> static_get_exchange_rate(static_rates[p], base, target, now),
                added |-> added_so_far]
    /\ UNCHANGED <<now, cache_vars, thread_vars, service_vars>>

NextStatic ==
    \/ \E base \in StaticBases, target \in StaticTargets, rate \in StaticFactors :
           StaticAddRate("S1", base, target, rate)
    \/ \E base \in StaticBases, target \in StaticTargets :
           StaticLookup("S1", base, target)

SpecStatic == InitConv /\ [][NextStatic]_vars

\* ------------------------------------- a chain behind a shared caching provider
\* A service whose chain holds the caching provider, shared with callers
\* that look rates up directly, and a static provider.  BTC and ETH have one
\* numeric code, so the caching provider's entry for BTC->EUR is what it
\* returns for ETH->EUR.
ChainRequests == {<<"BTC", "EUR">>}
ChainProviders == {"CP", "S2"}
ChainRateInputs == {<<"S2", "ETH", "EUR", 3>>}
ChainMoneys == {Monetary_new(1, "BTC"), Monetary_new(1, "ETH")}
ChainTargets == {"EUR"}

InitChain ==
    /\ now = 0
    /\ default_ttl \in 1..MaxTtl
    /\ upstream = [p \in {CurrencyPair("BTC", "EUR")} |-> [factor |-> 2, ttl |-> None]]
    /\ call_count = 0
    /\ cache = EmptyMap
    /\ fetched_at = EmptyMap
    /\ missed = {}
    /\ last = NoOp
    /\ pc = [t \in Threads |-> "idle"]
    /\ req = [t \in Threads |-> <<"USD", "EUR">>]
    /\ fetched = [t \in Threads |-> None]
    /\ started = 0
    /\ guards = [t \in Threads |-> {}]
    /\ static_rates = [p \in StaticProviders |-> EmptyMap]
    /\ providers = << >>
    /\ rate_cache = EmptyMap

NextChain ==
    \/ Tick
    \/ \E r \in ChainRequests : Lookup(r[1], r[2])
    \/ \E a \in ChainRateInputs : AddRate(a[1], a[2], a[3], a[4])
    \/ \E p \in ChainProviders : AddProvider(p)
    \/ \E m \in ChainMoneys, target \in ChainTargets : Convert(m, target)

SpecChain == InitChain /\ [][NextChain]_vars

\* ---------------------------------------------------------------------
\* C1: sequential lookups of one key.  Once a lookup has fetched the rate
\* from the upstream, a later lookup made less than default_ttl after that
\* fetch is served from the cache and leaves the upstream's call count
\* alone; a lookup made more than default_ttl after it calls the upstream
\* exactly once.
C1_SequentialTtlWindow ==
    (last.op = "lookup" /\ last.prev_fetch.some) =>
        LET elapsed == last.at - last.prev_fetch.v
        IN  /\ elapsed < default_ttl =>
                   /\ last.hit /\ ~last.up_called /\ last.result.some
                   /\ last.calls_after = last.calls_before
            /\ elapsed > default_ttl =>
                   /\ ~last.hit /\ last.up_called
                   /\ last.calls_after = last.calls_before + 1
            /\ call_count = last.calls_after

\* C1 witness: a lookup made after the window of an earlier fetch has
\* passed, which went to the upstream a second time.
C1_Witness ==
    /\ last.op = "lookup" /\ last.prev_fetch.some
    /\ last.at - last.prev_fetch.v > default_ttl
    /\ last.up_called /\ last.up.some
    /\ call_count = 2

\* C3: a lookup whose upstream call returned none returns none and leaves
\* the cache map as it was; and the lookup that follows such a lookup for
\* the same key calls the upstream again.
C3_NegativeNotCached ==
    last.op = "lookup" =>
        /\ (last.up_called /\ ~last.up.some) =>
               (last.result = None /\ cache = last.cache_before)
        /\ last.prev_missed => last.up_called

\* C3 witness: two lookups in a row for a key got none from the upstream,
\* while a stale entry for the key is still in the map.
C3_Witness ==
    /\ last.op = "lookup" /\ last.prev_missed
    /\ last.up_called /\ ~last.up.some /\ last.result = None
    /\ CurrencyPair(last.base, last.target) \in DOMAIN cache

\* C4: every rate stored in the caching provider's map carries the
\* provider's default_ttl.
C4_CachedTtlIsDefault ==
    \A p \in DOMAIN cache : cache[p].ttl = Some(default_ttl)

\* C4 witness: the upstream's rate carried another TTL, and the lookup
\* stored it.
C4_Witness ==
    /\ last.op = "lookup" /\ last.up.some
    /\ last.up.v.ttl.some /\ last.up.v.ttl.v # default_ttl
    /\ CurrencyPair(last.base, last.target) \in DOMAIN cache
    /\ cache[CurrencyPair(last.base, last.target)].timestamp = last.up.v.timestamp

\* C2: with callers interleaved, the upstream is called at most once per
\* key and TTL window: a call of the upstream that returns a rate for a key
\* is never made while less than default_ttl has passed since the previous
\* such call for that key.
C2_OneFetchPerWindow ==
    (last.op = "fetch" /\ last.prev_fetch.some) =>
        last.at - last.prev_fetch.v >= default_ttl

\* What provider p of the service answers to get_exchange_rate(base, target).
static_answer(p, base, target, t) ==
    static_get_exchange_rate(static_rates[p], base, target, t)

\* C5: provider priority.  A convert for a pair of different numeric codes
\* that finds the service cache empty is computed with the rate of the
\* first provider, in insertion order, that returns a rate for the pair:
\* the first provider's rate when both have one, the second's when the
\* first has none.
C5_ProviderPriority ==
    (/\ last.op = "convert"
     /\ numeric_code(last.amount.currency) # numeric_code(last.target)
     /\ last.cache_before = EmptyMap) =>
        \A i \in 1..Len(last.chain) :
            (/\ static_answer(last.chain[i], last.amount.currency, last.target, last.at).some
             /\ \A j \in 1..(i - 1) :
                    ~static_answer(last.chain[j], last.amount.currency, last.target, last.at).some)
            => last.result = apply(static_answer(last.chain[i], last.amount.currency,
                                                 last.target, last.at).v,
                                   last.amount, last.at)

\* C5 witness: both providers of the chain [P1, P2] have a rate for the
\* pair, with different factors, and the result is the amount times P1's.
C5_Witness ==
    /\ last.op = "convert" /\ last.cache_before = EmptyMap
    /\ Len(last.chain) = 2
    /\ static_answer(last.chain[1], last.amount.currency, last.target, last.at).some
    /\ static_answer(last.chain[2], last.amount.currency, last.target, last.at).some
    /\ static_answer(last.chain[1], last.amount.currency, last.target, last.at).v.factor
         # static_answer(last.chain[2], last.amount.currency, last.target, last.at).v.factor
    /\ last.result.ok
    /\ last.result.v.amount = last.amount.amount *
         static_answer(last.chain[1], last.amount.currency, last.target, last.at).v.factor

\* C6: after a convert has succeeded through a provider, the service cache
\* maps the pair to the rate that provider returned; and a convert that
\* finds a non-expired rate for its pair in the service cache is answered
\* with that rate, consults no provider, calls no upstream and leaves the
\* service cache as it was.
C6_ServiceCacheAnswers ==
    last.op = "convert" =>
        /\ (last.source = "provider" /\ last.result.ok) =>
               get(rate_cache, CurrencyPair(last.amount.currency, last.target)) = last.rate
        /\ (/\ numeric_code(last.amount.currency) # numeric_code(last.target)
            /\ last.entry_before.some
            /\ ~is_expired(last.entry_before.v, last.at)) =>
               /\ last.consulted = 0
               /\ last.result = apply(last.entry_before.v, last.amount, last.at)
               /\ call_count = last.calls_before
               /\ rate_cache = last.cache_before

\* C6 witness: a convert made after the clock has moved on from the time a
\* rate with a TTL was cached, answered with that rate while it is fresh.
C6_Witness ==
    /\ last.op = "convert" /\ last.result.ok
    /\ numeric_code(last.amount.currency) # numeric_code(last.target)
    /\ last.entry_before.some /\ last.entry_before.v.ttl.some
    /\ last.at > last.entry_before.v.timestamp
    /\ ~is_expired(last.entry_before.v, last.at)
    /\ last.consulted = 0 /\ Len(last.chain) > 0

\* C7: a convert for source and target of different numeric codes reports
\* NoRateFound exactly when the service cache holds no non-expired rate for
\* the pair and every provider of the chain returns none.
C7_NoRateFoundExactly ==
    (/\ last.op = "convert"
     /\ numeric_code(last.amount.currency) # numeric_code(last.target)) =>
        ((last.result = Err("NoRateFound")) <=>
            (/\ \/ ~last.entry_before.some
                \/ is_expired(last.entry_before.v, last.at)
             /\ \A i \in 1..Len(last.chain) :
                    ~provider_get_exchange_rate(last.chain[i], static_rates,
                                                last.provider_cache_before,
                                                last.upstream_before, default_ttl,
                                                last.amount.currency, last.target,
                                                last.at).rate.some))

\* C7 witness: NoRateFound from a service whose chain is not empty and
\* whose cache holds a rate for the pair, which has expired.
C7_Witness ==
    /\ last.op = "convert" /\ last.result = Err("NoRateFound")
    /\ last.entry_before.some /\ is_expired(last.entry_before.v, last.at)
    /\ Len(last.chain) > 0

\* C8: convert(m, c) for the currency c of m returns Ok(m), the same
\* amount, currency and context, consults no provider and leaves the
\* service cache alone, whatever the service holds.
C8_SameCurrencyIdentity ==
    (last.op = "convert" /\ last.amount.currency = last.target) =>
        /\ last.result = Ok(last.amount)
        /\ last.consulted = 0
        /\ rate_cache = last.cache_before
        /\ call_count = last.calls_before

\* C8 witness: a value with a non-default context converted to its own
\* currency by a service that has providers and a cached rate.
C8_Witness ==
    /\ last.op = "convert" /\ last.amount.currency = last.target
    /\ last.amount.context # DefaultContext
    /\ last.result = Ok(last.amount)
    /\ Len(last.chain) > 0 /\ last.cache_before # EmptyMap

\* C9: whenever convert(m, target) returns success, the currency of the
\* returned value is target.
C9_ResultInTargetCurrency ==
    (last.op = "convert" /\ last.result.ok) => last.result.v.currency = last.target

\* C10: convert_batch returns one result per input, in input order: result
\* i is what converting amounts[i] on its own gives, the amount itself when
\* it already has the target's numeric code and otherwise the amount times
\* the rate of its own source currency.
C10_BatchPointwise ==
    last.op = "batch" =>
        /\ Len(last.results) = Len(last.amounts)
        /\ \A i \in 1..Len(last.amounts) :
               last.results[i] =
                   convert(last.cache_before, providers, static_rates, cache, upstream,
                           default_ttl, last.amounts[i], last.target, last.at).result

\* The amounts of one partition of by_currency, in input order.
partition_amounts(amounts, code) ==
    [k \in 1..Len(indices_of(amounts, code)) |-> amounts[indices_of(amounts, code)[k]]]

\* C11: convert_batch partitions the amounts by source numeric code.  When
\* converting the first amount of a partition fails with error e, every
\* amount of the partition gets Err(e); and the results of a partition are
\* those of a batch made of that partition alone, whatever happened to the
\* other partitions.
C11_FailurePropagates ==
    last.op = "batch" =>
        \A code \in currency_codes(last.amounts) :
            /\ code # numeric_code(last.target) =>
                 (~convert(last.cache_before, providers, static_rates, cache, upstream,
                           default_ttl,
                           last.amounts[indices_of(last.amounts, code)[1]],
                           last.target, last.at).result.ok
                  => \A i \in 1..Len(last.amounts) :
                        numeric_code(last.amounts[i].currency) = code =>
                            last.results[i] =
                                convert(last.cache_before, providers, static_rates, cache,
                                        upstream, default_ttl,
                                        last.amounts[indices_of(last.amounts, code)[1]],
                                        last.target, last.at).result)
            /\ \A k \in 1..Len(indices_of(last.amounts, code)) :
                   last.results[indices_of(last.amounts, code)[k]] =
                       convert_batch(last.cache_before,
                                     partition_amounts(last.amounts, code),
                                     last.target, <<code>>).results[k]

\* C11 witness: the first amount of a partition of two failed with
\* CurrencyMismatch and the second, which converts on its own, got the same
\* error.
C11_Witness ==
    /\ last.op = "batch" /\ Len(last.amounts) = 2
    /\ numeric_code(last.amounts[1].currency) = numeric_code(last.amounts[2].currency)
    /\ numeric_code(last.amounts[1].currency) # numeric_code(last.target)
    /\ last.results[1] = Err("CurrencyMismatch")
    /\ last.results[2] = Err("CurrencyMismatch")
    /\ convert(last.cache_before, providers, static_rates, cache, upstream, default_ttl,
               last.amounts[2], last.target, last.at).result.ok

\* C12: apply(m) fails with CurrencyMismatch when m's currency differs from
\* the rate's base currency; otherwise with ExpiredRate when a TTL is set
\* and strictly more than the TTL has elapsed since the rate's timestamp;
\* otherwise it returns m.amount times the factor in the rate's target
\* currency.
C12_ApplyOutcome ==
    last.op = "apply" =>
        IF last.amount.currency # last.rate.base_currency
        THEN last.result = Err("CurrencyMismatch")
        ELSE IF last.rate.ttl.some /\ last.at - last.rate.timestamp > last.rate.ttl.v
        THEN last.result = Err("ExpiredRate")
        ELSE /\ last.result.ok
             /\ last.result.v.amount = last.amount.amount * last.rate.factor
             /\ last.result.v.currency = last.rate.target_currency

\* C12 witness: a rate applied exactly when its TTL has elapsed, which is
\* not yet expired.
C12_Witness ==
    /\ last.op = "apply" /\ last.rate.ttl.some
    /\ last.at - last.rate.timestamp = last.rate.ttl.v
    /\ last.result.ok
    /\ last.result.v.amount = last.amount.amount * last.rate.factor

\* C13: apply preserves the monetary context: the context of a successful
\* apply(m) is the context of m.
C13_ApplyPreservesContext ==
    (last.op = "apply" /\ last.result.ok) =>
        last.result.v.context = last.amount.context

\* C14: for each of the rounding modes Up, Down, Ceiling, Floor, HalfUp,
\* HalfDown and HalfEven of the rate's context, apply_convert returns the
\* product amount times factor rescaled to the context's max_scale with that
\* mode, as the decimal rescale defines the mode.
C14_RoundsToContext ==
    (/\ last.op = "apply_convert" /\ last.result.ok
     /\ last.rate.context.rounding_mode # "Unnecessary") =>
        decimal_eq(last.result.v.amount,
                   with_scale(decimal_mul(last.amount.amount, last.rate.factor),
                              last.rate.context.max_scale,
                              last.rate.context.rounding_mode))

\* The positions at which a thread is inside a provider's call: the
\* caching provider calling its upstream, convert calling its provider.
UpstreamPositions == {frame \o "upstream" : frame \in Frames}
ProviderPositions ==
    {"conv:get:" \o p : p \in {"lock_read", "reading", "upstream", "lock_write", "writing"}}

\* C15: a thread that is calling the upstream of the caching provider holds
\* no guard of any rate cache, and a thread whose convert is calling a
\* provider holds no guard of the service's cache: whoever waits to read a
\* cache is not kept out by a thread that is in such a call.
C15_NoLockAcrossProviderCall ==
    \A t \in Threads :
        /\ pc[t] \in UpstreamPositions => guards[t] = {}
        /\ pc[t] \in ProviderPositions =>
               (<<"svc", "read">> \notin guards[t] /\ <<"svc", "write">> \notin guards[t])
        /\ pc[t] \in UpstreamPositions =>
               \A u \in Threads \ {t} :
                   pc[u] \in {frame \o "lock_read" : frame \in Frames} => can_read("cp")

\* C15 witness: one thread is in the upstream call made by convert's
\* provider while another holds the read lock of the provider's cache.
C15_Witness ==
    \E t, u \in Threads :
        /\ pc[t] = "conv:get:upstream"
        /\ <<"cp", "read">> \in guards[u]

\* The positions at which a thread waits for a lock.
WaitingPositions ==
    {frame \o "lock_read" : frame \in Frames} \cup {frame \o "lock_write" : frame \in Frames}
        \cup {"conv:lock_read", "conv:lock_write"}

\* C16: no thread waits for a cache lock while it holds a guard, the two
\* caches' locks are never held together, and every call that has started
\* returns.
C16_NoDeadlock ==
    /\ [](\A t \in Threads :
            /\ pc[t] \in WaitingPositions => guards[t] = {}
            /\ Cardinality(guards[t]) <= 1)
    /\ \A t \in Threads : (pc[t] # "idle") ~> (pc[t] = "idle")

\* C16 witness: a thread waits for the write lock of the provider's cache
\* while another thread holds its read lock.
C16_Witness ==
    \E t, u \in Threads :
        /\ pc[t] \in {frame \o "lock_write" : frame \in Frames}
        /\ <<"cp", "read">> \in guards[u]

\* C17: a convert_to call, successful or failed, leaves the service's rate
\* cache as it was; and for currencies of different numeric codes its result
\* is apply_convert with the rate of the first provider that returns one
\* (NoRateFound when none does), whatever the cache holds.
C17_ConvertToIgnoresCache ==
    last.op = "convert_to" =>
        /\ rate_cache = last.cache_before
        /\ numeric_code(last.amount.currency) # numeric_code(last.target) =>
            /\ \A i \in 1..Len(last.chain) :
                (/\ static_answer(last.chain[i], last.amount.currency, last.target,
                                  last.at).some
                 /\ \A j \in 1..(i - 1) :
                        ~static_answer(last.chain[j], last.amount.currency, last.target,
                                       last.at).some)
                => last.result = apply_convert(static_answer(last.chain[i],
                                                             last.amount.currency,
                                                             last.target, last.at).v,
                                               last.amount, last.at)
            /\ (\A i \in 1..Len(last.chain) :
                    ~static_answer(last.chain[i], last.amount.currency, last.target,
                                   last.at).some)
                => last.result = Err("NoRateFound")

\* C17 witness: the cache holds a rate under the pair's key that does not
\* apply to the amount, and convert_to succeeded with a provider's rate.
C17_Witness ==
    /\ last.op = "convert_to" /\ last.result.ok
    /\ last.entry_before.some
    /\ apply_convert(last.entry_before.v, last.amount, last.at) = Err("CurrencyMismatch")
    /\ rate_cache = last.cache_before

\* The exact sum (sign = 1) or difference (sign = -1) of two decimals, at
\* the larger of their scales.
exact(x, y, sign) ==
    Dec(x.unscaled_value * Pow10(Max(x.scale, y.scale) - x.scale)
          + sign * y.unscaled_value * Pow10(Max(x.scale, y.scale) - y.scale),
        Max(x.scale, y.scale))

\* C18: x + y and x - y of two Monetary values are a CurrencyMismatch error
\* when the currencies differ as descriptors; otherwise they are Ok with the
\* exact sum or difference as amount and the currency and context of x.
C18_AddSubOutcome ==
    last.op \in {"add", "sub"} =>
        /\ ~last.result.panic
        /\ last.x.currency # last.y.currency
            => last.result.v = Err("CurrencyMismatch")
        /\ last.x.currency = last.y.currency
            => last.result.v =
                 Ok(Monetary_new_with_context(
                        exact(last.x.amount, last.y.amount,
                              IF last.op = "add" THEN 1 ELSE -1),
                        last.x.currency, last.x.context))

\* C18 witness: a difference of amounts of different scales whose operands
\* have different contexts.
C18_Witness ==
    /\ last.op = "sub" /\ last.result.v.ok
    /\ last.x.context # last.y.context
    /\ last.x.amount.scale < last.y.amount.scale
    /\ last.y.amount.unscaled_value # 0
    /\ last.result.v.v.context = last.x.context

\* C19: zero(c) + x and x + zero(c) both equal x under the equality of
\* Monetary, for every x of currency c and any context.
C19_ZeroIsIdentity ==
    last.op = "add_zero" =>
        /\ ~last.left_equal.panic /\ last.left_equal.v
        /\ ~last.right_equal.panic /\ last.right_equal.v

\* C20: (x + y) - y equals x for x and y of one currency, whatever their
\* scales, whenever the arithmetic does not end in an overflow panic.
C20_AddThenSubtract ==
    last.op = "round_trip" =>
        \/ last.equal.panic
        \/ last.equal.v

\* C20 witness: y has the larger scale, so that the result is x in another
\* representation.
C20_Witness ==
    /\ last.op = "round_trip" /\ ~last.equal.panic /\ last.equal.v
    /\ last.x.amount.scale < last.y.amount.scale
    /\ last.x.amount.unscaled_value # 0
    /\ last.back.v.v.amount # last.x.amount

\* The sign of a remainder.
sign(r) == IF r > 0 THEN 1 ELSE IF r < 0 THEN -1 ELSE 0

\* The adjustment of the truncated quotient q for remainder r and factor f,
\* as the rounding rules state it.
stated_adjustment(q, r, f, mode) ==
    CASE mode = "Up" -> IF r # 0 THEN sign(r) ELSE 0
      [] mode = "Down" -> 0
      [] mode = "Ceiling" -> IF r > 0 THEN 1 ELSE 0
      [] mode = "Floor" -> IF r < 0 THEN -1 ELSE 0
      [] mode = "HalfUp" -> IF 2 * Abs(r) >= f THEN sign(r) ELSE 0
      [] mode = "HalfDown" -> IF 2 * Abs(r) > f THEN sign(r) ELSE 0
      [] mode = "HalfEven" ->
            IF 2 * Abs(r) > f \/ (2 * Abs(r) = f /\ q % 2 # 0) THEN sign(r) ELSE 0
      [] mode = "Unnecessary" -> 0

\* C21: with_scale(target, mode) of (u, s) is (u * 10^(target - s), target)
\* when target >= s, and (q + adj, target) when target < s, with q and r the
\* quotient and remainder of u by 10^(s - target) truncated toward zero and
\* adj the adjustment of the mode, for u of either sign.
C21_WithScaleRounds ==
    (last.op = "with_scale" /\ ~last.result.panic) =>
        /\ last.scale >= last.d.scale =>
             last.result.v = Dec(last.d.unscaled_value * Pow10(last.scale - last.d.scale),
                                 last.scale)
        /\ last.scale < last.d.scale =>
             last.result.v =
               Dec(trunc_div(last.d.unscaled_value, Pow10(last.d.scale - last.scale))
                     + stated_adjustment(
                         trunc_div(last.d.unscaled_value, Pow10(last.d.scale - last.scale)),
                         trunc_rem(last.d.unscaled_value, Pow10(last.d.scale - last.scale)),
                         Pow10(last.d.scale - last.scale), last.mode),
                   last.scale)

\* C21 witness: a negative decimal exactly at the half with an odd quotient,
\* rounded HalfEven away from zero.
C21_Witness ==
    /\ last.op = "with_scale" /\ last.mode = "HalfEven"
    /\ last.d = Dec(-150, 2) /\ last.scale = 0
    /\ last.result = Value(Dec(-2, 0))

\* C22: with_scale to a smaller scale with mode Unnecessary and a non-zero
\* discarded remainder ends in an error returned to the caller, not in a
\* fatal failure, and gives no decimal; with a zero remainder it returns
\* the exact rescaled value.
C22_UnnecessaryReportsError ==
    (last.op = "with_scale" /\ last.mode = "Unnecessary" /\ last.scale < last.d.scale) =>
        IF trunc_rem(last.d.unscaled_value, Pow10(last.d.scale - last.scale)) # 0
        THEN ~last.result.panic /\ last.result.v \notin {with_scale(last.d, last.scale, m) : m \in RoundingModes}
        ELSE last.result = Value(Dec(trunc_div(last.d.unscaled_value,
                                               Pow10(last.d.scale - last.scale)),
                                     last.scale))

round_ratio(n, d, mode) ==
    trunc_div(IF d > 0 THEN n ELSE -n, Abs(d))
      + stated_adjustment(trunc_div(IF d > 0 THEN n ELSE -n, Abs(d)),
                          trunc_rem(IF d > 0 THEN n ELSE -n, Abs(d)), Abs(d), mode)

\* The exact quotient x / y rounded to a scale under a mode: x / y times
\* 10^scale is (x.u * 10^(scale + y.s)) / (y.u * 10^(x.s)).
exact_quotient(x, y, scale, mode) ==
    Dec(round_ratio(x.unscaled_value * Pow10(scale + y.scale),
                    y.unscaled_value * Pow10(x.scale), mode), scale)

\* C24: divide returns the DivisionByZero error for a divisor with unscaled
\* value 0, and otherwise, for every rounding mode that rounds, the exact
\* quotient rounded to target_scale under the mode.
C24_DivideRoundsExactQuotient ==
    (last.op = "divide" /\ last.mode # "Unnecessary") =>
        IF last.y.unscaled_value = 0
        THEN last.result = Value(Err("DivisionByZero"))
        ELSE last.result = Value(Ok(exact_quotient(last.x, last.y, last.target_scale,
                                                   last.mode)))

\* C25: for every decimal d = (u, s) with s >= 0, parsing the text that
\* formatting d produces gives a decimal with the unscaled value and the
\* scale of d.
C25_ParseFormatRoundTrip ==
    (last.op = "format_parse" /\ last.d.scale >= 0) => last.parsed = Ok(last.d)

\* C25 witness: -0.005, whose integer part is zero.
C25_Witness ==
    /\ last.op = "format_parse" /\ last.d = Dec(-5, 3)
    /\ last.text = <<"-", "0", ".", "0", "0", "5">>
    /\ last.parsed = Ok(Dec(-5, 3))

\* C26: divide_by of a decimal-backed Monetary by a scalar whose value is
\* zero reports DivisionByZero and returns no monetary value.
C26_DivideByZeroReported ==
    (last.op = "divide_by" /\ last.scalar.unscaled_value = 0) =>
        last.result = Err("DivisionByZero")

\* The product amount * (hundredths / 100) rescaled to the context of m.
stated_percentage(m, hundredths) ==
    Monetary_new_with_context(
        with_scale(Dec(m.amount.unscaled_value * hundredths, m.amount.scale + 2),
                   m.context.max_scale, m.context.rounding_mode),
        m.currency, m.context)

\* C27: apply_percentage(p) and percentage_of(p) of a decimal-backed value
\* return amount * (1 + p/100) and amount * (p/100) rescaled to the
\* context's max_scale with the context's rounding mode: the amount has
\* scale max_scale, and the currency and context are those of the value.
C27_PercentageRoundsToContext ==
    (last.op \in {"apply_percentage", "percentage_of"} /\ ~last.result.panic) =>
        /\ last.result.v.ok
        /\ last.result.v.v.amount.scale = last.m.context.max_scale
        /\ last.result.v.v =
             stated_percentage(last.m, IF last.op = "apply_percentage"
                                       THEN 100 + last.percentage ELSE last.percentage)

\* C28: every rate that get_exchange_rate of the caching provider returns
\* carries the provider's default_ttl, on a cache hit and on a fetch alike;
\* the rate returned by a fetching lookup is the rate that the map then
\* holds for the key, which a following cache hit returns.
C28_ReturnedTtlIsDefault ==
    (last.op = "lookup" /\ last.result.some) =>
        /\ last.result.v.ttl = Some(default_ttl)
        /\ (last.up_called /\ CurrencyPair(last.base, last.target) \in DOMAIN cache) =>
               last.result.v = cache[CurrencyPair(last.base, last.target)]

\* C29: get_exchange_rate(base, target) of a static provider returns a rate
\* if and only if add_rate was called on it for the currencies base and
\* target, and the factor returned is the one most recently added for these
\* two currencies; a rate added for another currency, one of the same
\* numeric code included, is never returned.
C29_StaticRateByCurrency ==
    last.op = "get_exchange_rate" =>
        LET key == <<last.p, last.base, last.target>>
        IN  /\ last.result.some <=> key \in DOMAIN last.added
            /\ last.result.some =>
                   /\ last.result.v.factor = last.added[key]
                   /\ last.result.v.base_currency = last.base
                   /\ last.result.v.target_currency = last.target

\* C30: a convert stops at the first provider that returns a rate even when
\* applying that rate fails: the error of the application (ExpiredRate or
\* CurrencyMismatch) is returned, no later provider of the chain is
\* consulted and the service cache is left as it was; the service cache
\* changes only by the insertion of a rate whose application succeeded.
C30_StopsAtFirstRate ==
    last.op = "convert" =>
        /\ (last.source = "provider" /\ ~last.result.ok) =>
               /\ last.result = apply(last.rate.v, last.amount, last.at)
               /\ last.result.err \in {"ExpiredRate", "CurrencyMismatch"}
               /\ last.consulted = last.index
               /\ last.index <= Len(last.chain)
               /\ rate_cache = last.cache_before
        /\ rate_cache # last.cache_before =>
               /\ last.source = "provider" /\ last.result.ok
               /\ last.result = apply(last.rate.v, last.amount, last.at)
               /\ rate_cache = insert(last.cache_before,
                                      CurrencyPair(last.amount.currency, last.target),
                                      last.rate.v)

\* C30 witness: the first provider of a chain of two returned a rate whose
\* application failed, while the second provider holds a rate for the
\* request that would have applied: the error was returned, the second
\* provider was not consulted and the service cache stayed empty.
C30_Witness ==
    /\ last.op = "convert" /\ last.source = "provider"
    /\ last.result = Err("CurrencyMismatch")
    /\ Len(last.chain) = 2 /\ last.index = 1 /\ last.consulted = 1
    /\ last.chain[2] \in StaticProviders
    /\ static_answer(last.chain[2], last.amount.currency, last.target, last.at).some
    /\ apply(static_answer(last.chain[2], last.amount.currency, last.target, last.at).v,
             last.amount, last.at).ok
    /\ rate_cache = EmptyMap

====
